---- MODULE Spec2Model ----
(***************************************************************************)
(* A model of humility's Core sessions (humility-core/src/core): the live  *)
(* probe backend, the OpenOCD Tcl-RPC backend, the static dump backend and *)
(* the unattached probe, and the GDB remote-serial backend.  One behaviour  *)
(* is one session of one backend.                                          *)
(*                                                                         *)
(* 32-bit and 64-bit machine integers are pairs <<hi, lo>> in radix 2^16,  *)
(* so that addresses such as 0xE000_0000 and sums that leave the u32 range *)
(* are computed exactly.  A u32 has hi < 2^16.                             *)
(***************************************************************************)
EXTENDS Integers, Sequences, FiniteSets, TLC

VARIABLES
    backend,          \* which implementation of Core this session is
    overflow_checks,  \* build profile: TRUE = arithmetic overflow panics
    aborted,          \* the process panicked
    target_halted,    \* the physical run state of the target
    probe,            \* ProbeCore fields: unhalted_reads, halted, can_flash
    chip,             \* the chip argument of attach_to_chip: "none" or "some"
    ocd,              \* OpenOCDCore fields: halted, was_halted
    at_connect,       \* what "$targ curstate" answered in OpenOCDCore::new
    dump,             \* DumpCore fields: contents (its length), regions, registers
    gdb,              \* GDBCore fields: halted, was_halted, reg_table
    gdbserver,        \* the GDB server: its feature documents, how it chunks them
    last,             \* the last Core call: operation, arguments, outcome
    conv,             \* a register or architecture function applied to an input
    br                \* history of the op_start/op_done bracket in progress

vars == <<backend, overflow_checks, aborted, target_halted, probe, chip, ocd,
          at_connect, dump, gdb, gdbserver, last, conv, br>>

----------------------------------------------------------------------------
(* Machine integers *)

Radix == 256 * 256

W(h, l) == <<h, l>>
FromNat(n) == <<n \div Radix, n % Radix>>
Zero32 == W(0, 0)
One32 == W(0, 1)
Max32 == W(Radix - 1, Radix - 1)

\* exact sum of two machine integers
Add(a, b) == <<a[1] + b[1] + ((a[2] + b[2]) \div Radix), (a[2] + b[2]) % Radix>>

\* exact difference, for a >= b
Sub(a, b) ==
    IF a[2] >= b[2] THEN <<a[1] - b[1], a[2] - b[2]>>
    ELSE <<a[1] - b[1] - 1, a[2] + Radix - b[2]>>

Lt(a, b) == a[1] < b[1] \/ (a[1] = b[1] /\ a[2] < b[2])
Le(a, b) == a = b \/ Lt(a, b)

\* a value that does not fit a u32, and its reduction modulo 2^32
Overflows32(a) == a[1] >= Radix
Wrap32(a) == <<a[1] % Radix, a[2]>>

\* the outcome of an arithmetic operation that panicked
Panicked == <<-1, -1>>
IsPanic(a) == a[1] < 0

\* u32 addition as the build performs it: a panic with overflow checks on,
\* the wrapped sum with them off
AddU32(a, b, checks) ==
    LET s == Add(a, b) IN
    IF Overflows32(s) THEN (IF checks THEN Panicked ELSE Wrap32(s)) ELSE s

\* u32 subtraction as the build performs it
SubU32(a, b, checks) ==
    IF Lt(a, b)
    THEN (IF checks THEN Panicked ELSE Sub(Add(a, W(Radix, 0)), b))
    ELSE Sub(a, b)

----------------------------------------------------------------------------
(* Bounds of the model *)

\* op_start/halt calls are explored while the nesting counter is within
\* MaxDepth of zero (from either side of the u32 wrap)
MaxDepth == 2

CORE_MAX_READSIZE == 65536

----------------------------------------------------------------------------
(* BTreeMap<u32, _>::range(..=addr).next_back(): the entry with the highest *)
(* key <= addr.  A map is a set of records with a unique field base.        *)

HasRangeLE(map, addr) == \E r \in map : Le(r.base, addr)

RangeLE(map, addr) ==
    CHOOSE r \in map :
        /\ Le(r.base, addr)
        /\ \A q \in map : Le(q.base, addr) => Le(q.base, r.base)

----------------------------------------------------------------------------
(* ProbeCore *)

\* arch::arm::unhalted_read_regions: the PPB at 0xe000_0000, 1 MiB
unhalted_read_regions == {[base |-> W(57344, 0), size |-> W(16, 0)]}

\* the places where the probe driver can report a failure during one call
ProbeFaults == {"none", "core", "halt", "read", "run"}

PRes(res, phys, h, t) == [res |-> res, phys |-> phys, halted |-> h, target |-> t]

\* a halt that reaches the target on every call, whatever the counter
HaltIsPhysical_Always(h) == TRUE

\* ProbeCore::halt: `if self.halted == 0`
HaltIsPhysical(h) == h = Zero32

\* ProbeCore::run: `if self.halted == 0` after the decrement
RunIsPhysical(h) == h = Zero32

\* ProbeCore::halt with the counter at h and the target halted iff t
ProbeHalt(h, t, fault, checks) ==
    IF HaltIsPhysical(h) /\ fault = "core" THEN PRes("err", <<>>, h, t)
    ELSE IF HaltIsPhysical(h) /\ fault = "halt" THEN PRes("err", <<"halt">>, h, t)
    ELSE
        LET phys == IF HaltIsPhysical(h) THEN <<"halt">> ELSE <<>>
            t2 == IF HaltIsPhysical(h) THEN TRUE ELSE t
            s == AddU32(h, One32, checks)
        IN  IF IsPanic(s) THEN PRes("panic", phys, h, t2)
            ELSE PRes("ok", phys, s, t2)

\* ProbeCore::run
ProbeRun(h, t, fault, checks) ==
    LET d == SubU32(h, One32, checks) IN
    IF IsPanic(d) THEN PRes("panic", <<>>, h, t)
    ELSE IF ~RunIsPhysical(d) THEN PRes("ok", <<>>, d, t)
    ELSE IF fault = "core" THEN PRes("err", <<>>, d, t)
    ELSE IF fault = "run" THEN PRes("err", <<"run">>, d, t)
    ELSE PRes("ok", <<"run">>, d, FALSE)

\* ProbeCore::op_start / op_done
ProbeOpStart(p, t, fault, checks) ==
    IF ~p.unhalted_reads THEN ProbeHalt(p.halted, t, fault, checks)
    ELSE PRes("ok", <<>>, p.halted, t)

ProbeOpDone(p, t, fault, checks) ==
    IF ~p.unhalted_reads THEN ProbeRun(p.halted, t, fault, checks)
    ELSE PRes("ok", <<>>, p.halted, t)

\* `addr + n < range.0 + range.1` for the entry `range` found for addr
WindowTest(addr, n, range, checks) ==
    LET end == AddU32(addr, n, checks)
        lim == AddU32(range.base, range.size, checks)
    IN  IF IsPanic(end) \/ IsPanic(lim) THEN "panic"
        ELSE IF Lt(end, lim) THEN "in" ELSE "out"

\* the always-readable test of read_word_32 / read_8: "in", "out" or "panic"
UnhaltedWindow(addr, n, checks) ==
    IF HasRangeLE(unhalted_read_regions, addr)
    THEN WindowTest(addr, n, RangeLE(unhalted_read_regions, addr), checks)
    ELSE "out"

\* ProbeCore::halt_and_read: `self.halted == 0 && !core.core_halted()?`
ReadNeedsHalt(h, t) == h = Zero32 /\ ~t

ProbeHaltAndRead(p, t, fault) ==
    LET h == p.halted IN
    IF fault = "core" THEN PRes("err", <<>>, h, t)
    ELSE IF p.unhalted_reads
    THEN PRes(IF fault = "read" THEN "err" ELSE "ok", <<"read">>, h, t)
    ELSE IF ~ReadNeedsHalt(h, t)
    THEN PRes(IF fault = "read" THEN "err" ELSE "ok", <<"read">>, h, t)
    ELSE IF fault = "halt" THEN PRes("err", <<"halt">>, h, t)
    ELSE IF fault = "run" THEN PRes("err", <<"halt", "read", "run">>, h, TRUE)
    ELSE PRes(IF fault = "read" THEN "err" ELSE "ok",
              <<"halt", "read", "run">>, h, FALSE)

\* the body shared by read_word_32 (n = 4) and read_8 (n = data.len() as u32)
ProbeReadAt(p, t, addr, n, fault, checks) ==
    LET w == UnhaltedWindow(addr, n, checks) IN
    IF w = "panic" THEN PRes("panic", <<>>, p.halted, t)
    ELSE IF w = "in"
    THEN (IF fault = "core" THEN PRes("err", <<>>, p.halted, t)
          ELSE PRes(IF fault = "read" THEN "err" ELSE "ok", <<"read">>, p.halted, t))
    ELSE ProbeHaltAndRead(p, t, fault)

\* ProbeCore::read_word_32
ProbeReadWord32(p, t, addr, fault, checks) ==
    ProbeReadAt(p, t, addr, FromNat(4), fault, checks)

\* ProbeCore::read_8: `data.len() > CORE_MAX_READSIZE` bails first
ProbeRead8(p, t, addr, len, fault, checks) ==
    IF len > CORE_MAX_READSIZE THEN PRes("size", <<>>, p.halted, t)
    ELSE ProbeReadAt(p, t, addr, Wrap32(FromNat(len)), fault, checks)

\* what flashing::download_file_with_options can do: program the image,
\* fail before it erased anything, or fail after erasing
LoadOutcomes == {"ok", "file", "erase"}

\* ProbeCore::load, had it not looked at can_flash
ProbeLoad_Unchecked(p, t, outcome) ==
    IF outcome = "file" THEN PRes("err", <<>>, p.halted, t)
    ELSE IF outcome = "erase" THEN PRes("err", <<"erase">>, p.halted, t)
    ELSE PRes("ok", <<"erase", "program">>, p.halted, t)

\* ProbeCore::load; the run state the flash loader leaves is the library's
\* and is kept as it was
ProbeLoad(p, t, outcome) ==
    IF ~p.can_flash THEN PRes("err", <<>>, p.halted, t)
    ELSE IF outcome = "file" THEN PRes("err", <<>>, p.halted, t)
    ELSE IF outcome = "erase" THEN PRes("err", <<"erase">>, p.halted, t)
    ELSE PRes("ok", <<"erase", "program">>, p.halted, t)

----------------------------------------------------------------------------
(* The record of the last call and the bracket history *)

Count(seq, x) == Cardinality({i \in 1..Len(seq) : seq[i] = x})
Min(a, b) == IF a < b THEN a ELSE b

NoArg == [addr |-> Zero32, len |-> 0]

\* op: the Core method; res: "ok", "err" (an Err of any other kind), "size",
\* "panic"; phys: the halt/run/read primitives or commands issued, in order;
\* pre: the probe's nesting counter when the call was made
\* kind: which error an "err" is; reply: the text a read_8 parsed; data: the
\* caller's buffer when the call returned
NoReply == [novar |-> FALSE, toks |-> <<>>]

CallX(op, arg, res, phys, pre, kind, reply, data) ==
    [op |-> op, arg |-> arg, res |-> res, phys |-> phys, pre |-> pre,
     kind |-> kind, reply |-> reply, data |-> data]

Call(op, arg, res, phys, pre) == CallX(op, arg, res, phys, pre, "", NoReply, <<>>)

\* no call is in flight and the last result has been consumed
Idle == Call("idle", NoArg, "ok", <<>>, Zero32)

NoBracket ==
    [depth |-> 0, max |-> 0, clean |-> FALSE, closed |-> FALSE, halts |-> 0,
     runs |-> 0, pre_halted |-> FALSE, pre_zero |-> FALSE]

Halts(phys) == Count(phys, "halt")
Runs(phys) == Count(phys, "run") + Count(phys, "resume")

\* the bracket history after a call `op` that issued `phys` and ended `res`,
\* made with the target halted iff t and the nesting counter zero iff z.
\* A bracket is followed while it is made of successful op_start/op_done
\* calls with reads and word writes in between; anything else ends the
\* history.
BrUpdate(b, op, res, phys, t, z) ==
    IF op = "op_start" /\ res = "ok" /\ b.depth = 0 THEN
        [depth |-> 1, max |-> 1, clean |-> TRUE, closed |-> FALSE,
         halts |-> Halts(phys), runs |-> Runs(phys),
         pre_halted |-> t, pre_zero |-> z]
    ELSE IF b.depth = 0 THEN NoBracket
    ELSE IF op = "op_start" /\ res = "ok" THEN
        [b EXCEPT !.depth = @ + 1, !.max = IF b.depth + 1 > @ THEN b.depth + 1 ELSE @,
                  !.halts = Min(2, @ + Halts(phys)), !.runs = Min(2, @ + Runs(phys))]
    ELSE IF op = "op_done" /\ res = "ok" THEN
        [b EXCEPT !.depth = @ - 1, !.closed = (b.depth = 1),
                  !.halts = Min(2, @ + Halts(phys)), !.runs = Min(2, @ + Runs(phys))]
    ELSE IF op \in {"read_word_32", "read_8", "read_reg", "write_word_32"}
            /\ res # "panic" THEN
        [b EXCEPT !.halts = Min(2, @ + Halts(phys)), !.runs = Min(2, @ + Runs(phys))]
    ELSE NoBracket

----------------------------------------------------------------------------
(* ProbeCore: the calls a client makes *)

ProbeAddrs ==
    { W(8192, 0),        \* 0x2000_0000
      W(57344, 0),       \* 0xe000_0000
      W(57359, 65531),   \* 0xe00f_fffb
      W(57359, 65532),   \* 0xe00f_fffc
      W(57360, 0),       \* 0xe010_0000
      W(65535, 65532) }  \* 0xffff_fffc

\* the (addr, data.len()) pairs of the read_8 calls explored
ProbeRead8Args ==
    { <<W(8192, 0), 4>>, <<W(8192, 0), CORE_MAX_READSIZE + 1>>,
      <<W(57343, 65535), 1>>,                  \* 0xdfff_ffff
      <<W(57344, 0), 0>>, <<W(57344, 0), CORE_MAX_READSIZE>>,
      <<W(57359, 65532), 3>>, <<W(57359, 65532), 4>>,
      <<W(57359, 65535), 1>>,                  \* 0xe00f_ffff
      <<W(57360, 0), 1>>,
      <<W(65535, 0), CORE_MAX_READSIZE>>,      \* 0xffff_0000
      <<W(65535, 65535), 1>> }                 \* 0xffff_ffff

CounterCanRise(h) ==
    Lt(h, FromNat(MaxDepth)) \/ ~Lt(h, Sub(Max32, FromNat(MaxDepth)))
CounterCanFall(h) ==
    Le(h, FromNat(MaxDepth)) \/ Lt(Sub(Max32, FromNat(MaxDepth)), h)

ProbeDo(op, arg, r) ==
    /\ probe' = [probe EXCEPT !.halted = r.halted]
    /\ target_halted' = r.target
    /\ aborted' = (r.res = "panic")
    /\ last' = Call(op, arg, r.res, r.phys, probe.halted)
    /\ br' = BrUpdate(br, op, r.res, r.phys, target_halted, probe.halted = Zero32)
    /\ UNCHANGED <<backend, overflow_checks, ocd, at_connect, chip, conv, dump, gdb, gdbserver>>

PHalt ==
    /\ backend = "probe" /\ last = Idle /\ ~aborted /\ CounterCanRise(probe.halted)
    /\ \E fault \in {"none", "core", "halt"} :
        ProbeDo("halt", NoArg,
                ProbeHalt(probe.halted, target_halted, fault, overflow_checks))

PRun ==
    /\ backend = "probe" /\ last = Idle /\ ~aborted /\ CounterCanFall(probe.halted)
    /\ \E fault \in {"none", "core", "run"} :
        ProbeDo("run", NoArg,
                ProbeRun(probe.halted, target_halted, fault, overflow_checks))

POpStart ==
    /\ backend = "probe" /\ last = Idle /\ ~aborted /\ CounterCanRise(probe.halted)
    /\ br.depth < MaxDepth
    /\ \E fault \in {"none", "core", "halt"} :
        ProbeDo("op_start", NoArg,
                ProbeOpStart(probe, target_halted, fault, overflow_checks))

POpDone ==
    /\ backend = "probe" /\ last = Idle /\ ~aborted /\ CounterCanFall(probe.halted)
    /\ \E fault \in {"none", "core", "run"} :
        ProbeDo("op_done", NoArg,
                ProbeOpDone(probe, target_halted, fault, overflow_checks))

PReadWord32 ==
    /\ backend = "probe" /\ last = Idle /\ ~aborted
    /\ \E addr \in ProbeAddrs, fault \in ProbeFaults :
        ProbeDo("read_word_32", [addr |-> addr, len |-> 4],
                ProbeReadWord32(probe, target_halted, addr, fault, overflow_checks))

PRead8 ==
    /\ backend = "probe" /\ last = Idle /\ ~aborted
    /\ \E a \in ProbeRead8Args, fault \in ProbeFaults :
        ProbeDo("read_8", [addr |-> a[1], len |-> a[2]],
                ProbeRead8(probe, target_halted, a[1], a[2], fault, overflow_checks))

PLoad ==
    /\ backend = "probe" /\ last = Idle /\ ~aborted
    /\ \E outcome \in LoadOutcomes :
        ProbeDo("load", NoArg, ProbeLoad(probe, target_halted, outcome))

----------------------------------------------------------------------------
(* OpenOCDCore *)

\* One command round trip (sendcmd).  st is the progress of the call in
\* flight: ok (no `?` has returned yet), the session's halted flag, the
\* target's run state, and the commands written so far.  The command named
\* by `fault` comes back as an Err; "halt" and "resume" that succeed take
\* effect on the target.
OcdSend(st, cmd, fault) ==
    IF fault = cmd THEN [st EXCEPT !.ok = FALSE, !.cmds = Append(@, cmd)]
    ELSE [st EXCEPT !.cmds = Append(@, cmd),
                    !.target = IF cmd = "halt" THEN TRUE
                               ELSE IF cmd = "resume" THEN FALSE ELSE @]

\* OpenOCDCore::halt
OcdHalt(st, fault) ==
    LET s1 == OcdSend(st, "halt", fault) IN
    IF s1.ok THEN [s1 EXCEPT !.halted = TRUE] ELSE s1

\* OpenOCDCore::run
OcdRun(st, fault) ==
    LET s1 == OcdSend(st, "resume", fault) IN
    IF s1.ok THEN [s1 EXCEPT !.halted = FALSE] ELSE s1

\* OpenOCDCore::op_start
OcdOpStart(st, fault) == OcdHalt(st, fault)

\* OpenOCDCore::op_done: `if !self.was_halted`
OcdOpDone(st, was_halted, fault) ==
    IF ~was_halted THEN OcdRun(st, fault) ELSE st

ORes(st, res, kind, data) ==
    [res |-> res, kind |-> kind, cmds |-> st.cmds, halted |-> st.halted,
     target |-> st.target, data |-> data]

OcdBegin(o, t) == [ok |-> TRUE, halted |-> o.halted, target |-> t, cmds |-> <<>>]

\* OpenOCDCore::read_word_32; parses: the reply is a decimal u32
OcdReadWord32(o, t, parses, fault) ==
    LET s1 == OcdOpStart(OcdBegin(o, t), fault)
        s2 == OcdSend(s1, "mrw", fault)
        s3 == OcdOpDone(s2, o.was_halted, fault)
    IN  IF ~s1.ok THEN ORes(s1, "err", "io", <<>>)
        ELSE IF ~s2.ok THEN ORes(s2, "err", "io", <<>>)
        ELSE IF ~s3.ok THEN ORes(s3, "err", "io", <<>>)
        ELSE IF ~parses THEN ORes(s3, "err", "parse", <<>>)
        ELSE ORes(s3, "ok", "", <<>>)

\* OpenOCDCore::write_word_32
OcdWriteWord32(o, t, fault) ==
    LET s1 == OcdOpStart(OcdBegin(o, t), fault)
        s2 == OcdSend(s1, "mww", fault)
        s3 == OcdOpDone(s2, o.was_halted, fault)
    IN  IF ~s1.ok THEN ORes(s1, "err", "io", <<>>)
        ELSE IF ~s2.ok THEN ORes(s2, "err", "io", <<>>)
        ELSE IF ~s3.ok THEN ORes(s3, "err", "io", <<>>)
        ELSE ORes(s3, "ok", "", <<>>)

\* OpenOCDCore::read_reg; parses: the last word of the reply's first line is
\* an integer.  The Ok return comes before op_done.
OcdReadReg(o, t, parses, fault) ==
    LET s1 == OcdOpStart(OcdBegin(o, t), fault)
        s2 == OcdSend(s1, "reg", fault)
        s3 == OcdOpDone(s2, o.was_halted, fault)
    IN  IF ~s1.ok THEN ORes(s1, "err", "io", <<>>)
        ELSE IF ~s2.ok THEN ORes(s2, "err", "io", <<>>)
        ELSE IF parses THEN ORes(s2, "ok", "", <<>>)
        ELSE IF ~s3.ok THEN ORes(s3, "err", "io", <<>>)
        ELSE ORes(s3, "err", "malformed", <<>>)

(* The reply to "return $output" is split at single spaces.  A token is
   modelled by how the two parsers read it: fmt "dec" is a string of decimal
   digits with value val, "hex" is 0x followed by hex digits, "bad" is
   anything else (the empty token included). *)
Dec(n) == [fmt |-> "dec", val |-> n]
Hex(n) == [fmt |-> "hex", val |-> n]
BadTok == [fmt |-> "bad", val |-> 0]

\* str::parse::<usize>: decimal digits only
ParsesUsize(tok) == tok.fmt = "dec"

\* str::parse::<u8>: decimal digits only, value at most 255
ParsesU8(tok) == tok.fmt = "dec" /\ tok.val <= 255

\* the caller's buffer before the call: every byte holds earlier content
Stale == -1
FreshBuffer(len) == [i \in 0..(len - 1) |-> Stale]

NoIndex == -1

\* `if idx >= data.len()`
IllegalIndex(idx, len) == idx >= len

\* the loop `for val in result.split(' ')` from token k on; the result is
\* the error that bailed ("" for none) and the buffer
RECURSIVE ParseArray(_, _, _, _, _)
ParseArray(toks, k, index, seen, data) ==
    IF k > Len(toks) THEN [kind |-> "", seen |-> seen, data |-> data]
    ELSE IF index = NoIndex THEN
        IF ~ParsesUsize(toks[k]) THEN [kind |-> "parse", seen |-> seen, data |-> data]
        ELSE IF IllegalIndex(toks[k].val, Cardinality(DOMAIN data))
        THEN [kind |-> "illegal", seen |-> seen, data |-> data]
        ELSE IF seen[toks[k].val] THEN [kind |-> "duplicate", seen |-> seen, data |-> data]
        ELSE ParseArray(toks, k + 1, toks[k].val,
                        [seen EXCEPT ![toks[k].val] = TRUE], data)
    ELSE
        IF ~ParsesU8(toks[k]) THEN [kind |-> "parse", seen |-> seen, data |-> data]
        ELSE ParseArray(toks, k + 1, NoIndex, seen,
                        [data EXCEPT ![index] = toks[k].val])

\* `for v in seen.iter().enumerate() { ensure!(v.1, ...) }`
AllSeen(seen) == \A i \in DOMAIN seen : seen[i]

\* OpenOCDCore::read_8.  reply is the text "return $output" answers with:
\* "novar" (contains "no such variable") or a sequence of tokens.
OcdRead8(o, t, len, reply, fault) ==
    IF len > CORE_MAX_READSIZE
    THEN ORes(OcdBegin(o, t), "size", "size", <<>>)
    ELSE
    LET s1 == OcdOpStart(OcdBegin(o, t), fault)
        s2 == OcdSend(s1, "array unset output", fault)
        s3 == OcdSend(s2, "mem2array", fault)
        s4 == OcdSend(s3, "return $output", fault)
        buf == FreshBuffer(len)
        p == ParseArray(reply.toks, 1, NoIndex, [i \in 0..(len - 1) |-> FALSE], buf)
        s5 == OcdOpDone(s4, o.was_halted, fault)
    IN  IF ~s1.ok THEN ORes(s1, "err", "io", buf)
        ELSE IF ~s2.ok THEN ORes(s2, "err", "io", buf)
        ELSE IF ~s3.ok THEN ORes(s3, "err", "io", buf)
        ELSE IF ~s4.ok THEN ORes(s4, "err", "io", buf)
        ELSE IF reply.novar THEN ORes(s4, "err", "novar", buf)
        ELSE IF p.kind # "" THEN ORes(s4, "err", p.kind, p.data)
        ELSE IF ~AllSeen(p.seen) THEN ORes(s4, "err", "missing", p.data)
        ELSE IF ~s5.ok THEN ORes(s5, "err", "io", p.data)
        ELSE ORes(s5, "ok", "", p.data)

----------------------------------------------------------------------------
(* OpenOCDCore: the calls a client makes *)

MaxTokens == 4

Tokens == {Dec(0), Dec(1), Dec(65), Dec(300), Hex(65), Hex(66)}

\* the non-empty sequences over S of length at most n
SeqsUpTo(S, n) == UNION {[1..k -> S] : k \in 1..n}

\* str::split(' ') yields at least one token; the empty reply is one empty
\* token; the replies tried for a read of len bytes have up to 2 * len + 1
\* tokens (one more than a full answer), and at most MaxTokens
Replies(len) ==
    {[novar |-> TRUE, toks |-> <<>>], [novar |-> FALSE, toks |-> <<BadTok>>]}
    \cup {[novar |-> FALSE, toks |-> q] :
            q \in SeqsUpTo(Tokens, Min(MaxTokens, 2 * len + 1))}

OcdAddr == W(8192, 0)   \* 0x2000_0000

OcdLens == {0, 1, 2, CORE_MAX_READSIZE + 1}

OcdDo(op, arg, r, reply) ==
    /\ ocd' = [ocd EXCEPT !.halted = r.halted]
    /\ target_halted' = r.target
    /\ last' = CallX(op, arg, r.res, r.cmds, Zero32, r.kind, reply, r.data)
    /\ br' = BrUpdate(br, op, r.res, <<>>, target_halted, ~ocd.halted)
    /\ UNCHANGED <<backend, overflow_checks, aborted, probe, at_connect, chip, conv, dump,
                   gdb, gdbserver>>

OHalt ==
    /\ backend = "ocd" /\ last = Idle
    /\ \E fault \in {"none", "halt"} :
        LET s1 == OcdHalt(OcdBegin(ocd, target_halted), fault) IN
        OcdDo("halt", NoArg,
              ORes(s1, IF s1.ok THEN "ok" ELSE "err", IF s1.ok THEN "" ELSE "io", <<>>),
              NoReply)

ORun ==
    /\ backend = "ocd" /\ last = Idle
    /\ \E fault \in {"none", "resume"} :
        LET s1 == OcdRun(OcdBegin(ocd, target_halted), fault) IN
        OcdDo("run", NoArg,
              ORes(s1, IF s1.ok THEN "ok" ELSE "err", IF s1.ok THEN "" ELSE "io", <<>>),
              NoReply)

OOpStart ==
    /\ backend = "ocd" /\ last = Idle /\ br.depth < MaxDepth
    /\ \E fault \in {"none", "halt"} :
        LET s1 == OcdOpStart(OcdBegin(ocd, target_halted), fault) IN
        OcdDo("op_start", NoArg,
              ORes(s1, IF s1.ok THEN "ok" ELSE "err", IF s1.ok THEN "" ELSE "io", <<>>),
              NoReply)

OOpDone ==
    /\ backend = "ocd" /\ last = Idle
    /\ \E fault \in {"none", "resume"} :
        LET s1 == OcdOpDone(OcdBegin(ocd, target_halted), ocd.was_halted, fault) IN
        OcdDo("op_done", NoArg,
              ORes(s1, IF s1.ok THEN "ok" ELSE "err", IF s1.ok THEN "" ELSE "io", <<>>),
              NoReply)

OReadWord32 ==
    /\ backend = "ocd" /\ last = Idle
    /\ \E parses \in BOOLEAN, fault \in {"none", "halt", "mrw", "resume"} :
        OcdDo("read_word_32", [addr |-> OcdAddr, len |-> 4],
              OcdReadWord32(ocd, target_halted, parses, fault), NoReply)

OWriteWord32 ==
    /\ backend = "ocd" /\ last = Idle
    /\ \E fault \in {"none", "halt", "mww", "resume"} :
        OcdDo("write_word_32", [addr |-> OcdAddr, len |-> 4],
              OcdWriteWord32(ocd, target_halted, fault), NoReply)

OReadReg ==
    /\ backend = "ocd" /\ last = Idle
    /\ \E parses \in BOOLEAN, fault \in {"none", "halt", "reg", "resume"} :
        OcdDo("read_reg", NoArg,
              OcdReadReg(ocd, target_halted, parses, fault), NoReply)

\* a command that fails before "return $output" is answered leaves no reply;
\* "resume" can fail only in a call that gets as far as op_done
ORead8 ==
    /\ backend = "ocd" /\ last = Idle
    /\ \E len \in OcdLens :
        \/ \E fault \in {"halt", "array unset output", "mem2array", "return $output"} :
            OcdDo("read_8", [addr |-> OcdAddr, len |-> len],
                  OcdRead8(ocd, target_halted, len, NoReply, fault), NoReply)
        \/ \E reply \in Replies(len) :
            OcdDo("read_8", [addr |-> OcdAddr, len |-> len],
                  OcdRead8(ocd, target_halted, len, reply, "none"), reply)
        \/ \E reply \in Replies(len) :
            /\ OcdRead8(ocd, target_halted, len, reply, "none").res = "ok"
            /\ OcdDo("read_8", [addr |-> OcdAddr, len |-> len],
                     OcdRead8(ocd, target_halted, len, reply, "resume"), reply)

----------------------------------------------------------------------------
(* DumpCore *)

ToNat(a) == a[1] * Radix + a[2]

\* the bytes of the dump file: contents[i] for i < contents.len()
ContentByte(i) == (7 * i + 3) % 256

PT_LOAD == 1
PT_NOTE == 4

\* BTreeMap::insert: an entry with the same key is replaced
MapInsert(map, e) == {r \in map : r.base # e.base} \cup {e}

\* the loop over elf.program_headers in DumpCore::new, from header k on
RECURSIVE LoadRegions(_, _, _)
LoadRegions(phdrs, k, regions) ==
    IF k > Len(phdrs) THEN regions
    ELSE IF phdrs[k].p_type # PT_LOAD THEN LoadRegions(phdrs, k + 1, regions)
    ELSE LoadRegions(phdrs, k + 1,
            MapInsert(regions, [base |-> Wrap32(phdrs[k].p_vaddr),
                                size |-> Wrap32(phdrs[k].p_memsz),
                                offset |-> phdrs[k].p_offset]))

\* DumpCore::new
DumpNew(file_len, phdrs, registers) ==
    [len |-> file_len, regions |-> LoadRegions(phdrs, 1, {}), registers |-> registers]

\* DumpCore::check_offset: `rsize + offs <= self.contents.len()`
CheckOffset(d, rsize, offs) == Le(Add(rsize, offs), d.len)

\* `(addr - base) + rsize as u32 > size`, in u32 arithmetic: "panic", "past"
\* or "fits"
\* a segment test that also turns away the access ending at the segment's
\* last byte
SegmentTest_OffByOne(addr, rsize, r, checks) ==
    LET end == AddU32(Sub(addr, r.base), Wrap32(rsize), checks) IN
    IF IsPanic(end) THEN "panic"
    ELSE IF Le(r.size, end) THEN "past" ELSE "fits"

SegmentTest(addr, rsize, r, checks) ==
    LET end == AddU32(Sub(addr, r.base), Wrap32(rsize), checks) IN
    IF IsPanic(end) THEN "panic"
    ELSE IF Lt(r.size, end) THEN "past" ELSE "fits"

\* `offset + (addr - base) as usize`
DumpOffs(addr, r) == Add(r.offset, Sub(addr, r.base))

\* `&self.contents[offs..rsize + offs]`
Slice(offs, rsize) == [i \in 0..(rsize - 1) |-> ContentByte(offs + i)]

DRes(res, kind, data, d) == [res |-> res, kind |-> kind, data |-> data, dump |-> d]

\* the body shared by DumpCore::read_word_32 (rsize = 4) and read_8; len is
\* rsize as a number
DumpReadAt(d, addr, len, checks) ==
    IF ~HasRangeLE(d.regions, addr) THEN DRes("err", "invalid", <<>>, d)
    ELSE
        LET r == RangeLE(d.regions, addr)
            seg == SegmentTest(addr, FromNat(len), r, checks)
            offs == DumpOffs(addr, r)
        IN  IF seg = "panic" THEN DRes("panic", "", <<>>, d)
            ELSE IF seg = "past" THEN DRes("err", "range", <<>>, d)
            ELSE IF ~CheckOffset(d, FromNat(len), offs)
            THEN DRes("err", "truncated", <<>>, d)
            ELSE DRes("ok", "", Slice(ToNat(offs), len), d)

\* DumpCore::read_word_32
DumpReadWord32(d, addr, checks) == DumpReadAt(d, addr, 4, checks)

\* DumpCore::read_8
DumpRead8(d, addr, len, checks) == DumpReadAt(d, addr, len, checks)

\* DumpCore::read_reg
DumpReadReg(d, reg) ==
    IF reg \in DOMAIN d.registers THEN DRes("ok", "", <<d.registers[reg]>>, d)
    ELSE DRes("err", "absent", <<>>, d)

\* DumpCore::write_reg, write_word_32, write_8, step, load, reset, init_swv,
\* read_swv: each is a bail!
DumpWriteReg(d) == DRes("err", "capability", <<>>, d)

\* a word write that is accepted
DumpWriteWord32_Ok(d) == DRes("ok", "", <<>>, d)

DumpWriteWord32(d) == DRes("err", "capability", <<>>, d)
DumpWrite8(d) == DRes("err", "capability", <<>>, d)
DumpStep(d) == DRes("err", "capability", <<>>, d)
DumpLoad(d) == DRes("err", "capability", <<>>, d)
DumpReset(d) == DRes("err", "capability", <<>>, d)
DumpInitSwv(d) == DRes("err", "capability", <<>>, d)
DumpReadSwv(d) == DRes("err", "capability", <<>>, d)

\* DumpCore::halt, run: Ok(()) and nothing else
DumpHalt(d) == DRes("ok", "", <<>>, d)
DumpRun(d) == DRes("ok", "", <<>>, d)

StaticOps ==
    {"write_reg", "write_word_32", "write_8", "step", "load", "reset",
     "init_swv", "read_swv", "halt", "run"}

DumpOp(op, d) ==
    CASE op = "write_reg" -> DumpWriteReg(d)
      [] op = "write_word_32" -> DumpWriteWord32(d)
      [] op = "write_8" -> DumpWrite8(d)
      [] op = "step" -> DumpStep(d)
      [] op = "load" -> DumpLoad(d)
      [] op = "reset" -> DumpReset(d)
      [] op = "init_swv" -> DumpInitSwv(d)
      [] op = "read_swv" -> DumpReadSwv(d)
      [] op = "halt" -> DumpHalt(d)
      [] op = "run" -> DumpRun(d)

----------------------------------------------------------------------------
(* UnattachedCore: every method but reset is a bail!; reset drives the       *)
(* probe's reset line and fails when the probe does                          *)

UnattachedReset(d, probe_ok) ==
    IF probe_ok THEN DRes("ok", "", <<>>, d) ELSE DRes("err", "io", <<>>, d)

UnattachedOp(op, d, probe_ok) ==
    IF op = "reset" THEN UnattachedReset(d, probe_ok)
    ELSE DRes("err", "unimplemented", <<>>, d)

----------------------------------------------------------------------------
(* DumpCore and UnattachedCore: the calls a client makes *)

MaxPhdrs == 2

Phdr(t, vaddr, memsz, offset) ==
    [p_type |-> t, p_vaddr |-> vaddr, p_memsz |-> memsz, p_offset |-> offset]

\* the program headers a dump is made of
PhdrChoices ==
    { Phdr(PT_LOAD, W(0, 0), W(0, 8), W(0, 4)),
      Phdr(PT_LOAD, W(8192, 0), W(0, 8), W(0, 16)),       \* 0x2000_0000
      Phdr(PT_LOAD, W(8192, 0), W(0, 4), W(0, 12)),
      Phdr(PT_NOTE, W(0, 0), W(0, 16), W(0, 0)),
      Phdr(PT_LOAD, W(2048, 0), W(2, 0), W(0, 32)) }       \* 0x0800_0000, 128 KiB

PhdrLists == {<<>>} \cup SeqsUpTo(PhdrChoices, MaxPhdrs)

\* contents.len(): the second cuts the segment at offset 16 short, the last
\* holds all of the 128 KiB segment
FileLens == {W(0, 24), W(0, 20), W(2, 32)}

RegisterMaps == {<<>>, [r \in {"PC", "SP"} |-> IF r = "PC" THEN 256 ELSE 512]}
RegisterNames == {"PC", "R0"}

DumpAddrs ==
    { W(0, 0), W(0, 4), W(0, 5), W(0, 8),
      W(8191, 65535),                                      \* 0x1fff_ffff
      W(8192, 0), W(8192, 4), W(8192, 5), W(8192, 8),
      W(65535, 65532) }                                    \* 0xffff_fffc

DumpRead8Args ==
    { <<W(0, 0), 0>>, <<W(0, 0), 1>>, <<W(0, 0), 8>>, <<W(0, 0), 9>>,
      <<W(0, 7), 1>>, <<W(0, 8), 1>>, <<W(0, 8), 0>>,
      <<W(8191, 65535), 1>>,
      <<W(8192, 0), 1>>, <<W(8192, 0), 4>>, <<W(8192, 0), 8>>,
      <<W(8192, 3), 1>>, <<W(8192, 4), 1>>, <<W(8192, 4), 4>>,
      <<W(8192, 7), 1>>, <<W(8192, 8), 1>>,
      <<W(2048, 0), CORE_MAX_READSIZE>>, <<W(2048, 0), CORE_MAX_READSIZE + 1>>,
      <<W(2050, 0), 1>>,                                   \* 0x0802_0000
      <<W(65535, 65535), 1>>, <<W(65535, 65535), 2>> }     \* 0xffff_ffff

StaticDo(op, arg, r) ==
    /\ dump' = r.dump
    /\ aborted' = (r.res = "panic")
    /\ last' = CallX(op, arg, r.res, <<>>, Zero32, r.kind, NoReply, r.data)
    /\ UNCHANGED <<backend, overflow_checks, target_halted, probe, ocd, at_connect, chip, conv, br,
                   gdb, gdbserver>>

DReadWord32 ==
    /\ backend = "dump" /\ last = Idle /\ ~aborted
    /\ \E addr \in DumpAddrs :
        StaticDo("read_word_32", [addr |-> addr, len |-> 4],
                 DumpReadWord32(dump, addr, overflow_checks))

DRead8 ==
    /\ backend = "dump" /\ last = Idle /\ ~aborted
    /\ \E a \in DumpRead8Args :
        StaticDo("read_8", [addr |-> a[1], len |-> a[2]],
                 DumpRead8(dump, a[1], a[2], overflow_checks))

DReadReg ==
    /\ backend = "dump" /\ last = Idle /\ ~aborted
    /\ \E reg \in RegisterNames :
        StaticDo("read_reg", NoArg, DumpReadReg(dump, reg))

DOther ==
    /\ backend = "dump" /\ last = Idle /\ ~aborted
    /\ \E op \in StaticOps : StaticDo(op, NoArg, DumpOp(op, dump))

UCall ==
    /\ backend = "unattached" /\ last = Idle /\ ~aborted
    /\ \E op \in StaticOps \cup {"read_word_32", "read_8", "read_reg"},
          probe_ok \in BOOLEAN :
        StaticDo(op, NoArg, UnattachedOp(op, dump, probe_ok))

----------------------------------------------------------------------------
(* GDBCore: packets *)

(* A command is a byte string, kept as a sequence of runs [b, n]: the byte b
   repeated n times, n a machine integer, so that strings of many megabytes
   can be written down.  A reply is a sequence of characters; a character
   is a one-character string, or the text of one XML element where a reply
   carries a feature document. *)
Run(b, n) == [b |-> b, n |-> n]
Bytes(codes) == [i \in 1..Len(codes) |-> Run(codes[i], One32)]

\* b * n, exactly
Times(b, n) == <<b * n[1] + ((b * n[2]) \div Radix), (b * n[2]) % Radix>>

\* the sum of the bytes lo..hi of a command, exactly (the terms are added
\* pairwise so that a long command needs only a shallow evaluation)
RECURSIVE ByteSum(_, _, _)
ByteSum(cmd, lo, hi) ==
    IF lo > hi THEN Zero32
    ELSE IF lo = hi THEN Times(cmd[lo].b, cmd[lo].n)
    ELSE Add(ByteSum(cmd, lo, (lo + hi) \div 2), ByteSum(cmd, (lo + hi) \div 2 + 1, hi))

HexDigitLower(d) == IF d < 10 THEN 48 + d ELSE 87 + d
HexDigitUpper(d) == IF d < 10 THEN 48 + d ELSE 55 + d

\* format!("{:x}", n)
RECURSIVE LowerHex(_)
LowerHex(n) ==
    IF n < 16 THEN <<HexDigitLower(n)>>
    ELSE Append(LowerHex(n \div 16), HexDigitLower(n % 16))

\* format!("{:02x}", n)
LowerHex02(n) == IF n < 16 THEN <<48, HexDigitLower(n)>> ELSE LowerHex(n)

\* format!("{:X}", n) and format!("{:02X}", n)
RECURSIVE UpperHex(_)
UpperHex(n) ==
    IF n < 16 THEN <<HexDigitUpper(n)>>
    ELSE Append(UpperHex(n \div 16), HexDigitUpper(n % 16))

UpperHex02(n) == IF n < 16 THEN <<48, HexDigitUpper(n)>> ELSE UpperHex(n)

GDB_PACKET_START == 36   \* '$'
GDB_PACKET_END == 35     \* '#'

\* what prepcmd leaves when `cksum += *b as u32` panics
NoPacket == [start |-> -1, body |-> <<>>, trailer |-> <<>>]

\* `cksum` after the loop: a u32 running sum, which panics (with overflow
\* checks) or wraps (without) once the sum of the bytes passes 2^32 - 1
Cksum(cmd, checks) ==
    LET s == ByteSum(cmd, 1, Len(cmd)) IN
    IF Overflows32(s) THEN (IF checks THEN Panicked ELSE Wrap32(s)) ELSE s

\* GDBCore::prepcmd
PrepCmd(cmd, checks) ==
    LET cksum == Cksum(cmd, checks) IN
    IF IsPanic(cksum) THEN NoPacket
    ELSE [start |-> GDB_PACKET_START, body |-> cmd,
          trailer |-> <<GDB_PACKET_END>> \o LowerHex02(cksum[2] % 256)]

\* the commands GDBCore sends
CmdContinue == Bytes(<<99>>)                       \* "c"
CmdHalt == Bytes(<<104>>)                          \* "h"
CmdSupported == Bytes(<<113, 83, 117, 112, 112, 111, 114, 116, 101, 100>>)   \* "qSupported"
CmdReadMem(addr, len) ==                           \* format!("m{:x},{:x}", ..)
    Bytes(<<109>> \o LowerHex(addr) \o <<44>> \o LowerHex(len))
CmdReadReg(id) == Bytes(<<112>> \o UpperHex02(id)) \* format!("p{:02X}", ..)

\* "qXfer:features:read:"
QXferPrefix ==
    Bytes(<<113, 88, 102, 101, 114, 58, 102, 101, 97, 116, 117, 114, 101, 115, 58, 114, 101, 97, 100, 58>>)

\* format!("qXfer:features:read:{}:{:x},ffb", xml_file, len_read)
CmdXfer(file_bytes, len_read) ==
    QXferPrefix \o file_bytes \o Bytes(<<58>> \o LowerHex(len_read) \o <<44, 102, 102, 98>>)

----------------------------------------------------------------------------
(* GDBCore: one command and its reply *)

\* "T02thread", the marker of a stop reply
StopMarker == <<"T", "0", "2", "t", "h", "r", "e", "a", "d">>
StopReply == StopMarker \o <<":", "0", "1", ";">>

\* str::contains
Contains(text, pat) ==
    \E i \in 1..(Len(text) - Len(pat) + 1) : SubSeq(text, i, i + Len(pat) - 1) = pat

\* `data.len() == 3 && data.starts_with('E')`
IsErrorCode(data) == Len(data) = 3 /\ data[1] = "E"

(* What crossed the wire during a call, in order: "tx" a packet written by
   firecmd (cmd its payload, pkt what prepcmd made of it, NoPacket where
   prepcmd panicked and nothing was written), "rxack" the byte
   recvack read, "rx" a packet payload recvdata returned, "txack" the '+'
   sendack wrote; "set_halted" marks `self.halted = true`. *)
Ev(ev, cmd, pkt, data) == [ev |-> ev, cmd |-> cmd, pkt |-> pkt, data |-> data]
Tx(cmd, checks) == Ev("tx", cmd, PrepCmd(cmd, checks), <<>>)
Rx(data) == Ev("rx", <<>>, NoPacket, data)
Mark(ev) == Ev(ev, <<>>, NoPacket, <<>>)

\* the transport steps of sendcmd at which the stream can fail
SendFaults ==
    {"none", "write1", "ack", "recv1", "sendack", "write2", "recv2", "writec"}

\* a server's behaviour during one sendcmd: the first packet it sends after
\* the command (r1) and the packet it sends after a retransmission (r2)
Script(fault, r1, r2) == [fault |-> fault, r1 |-> r1, r2 |-> r2]

GRes(res, kind, data, log, halted, target) ==
    [res |-> res, kind |-> kind, data |-> data, log |-> log, halted |-> halted,
     target |-> target]

\* the tail of sendcmd: an "Exx" reply is an Err
GdbFinish(data, log, halted, target) ==
    IF IsErrorCode(data) THEN GRes("err", "code", data, log, halted, target)
    ELSE GRes("ok", "", data, log, halted, target)

\* the first n of the events of a sendcmd that meets a stop reply: tx the
\* packet of its command, go the packet of "c"
SendLog(tx, go, sc, n) ==
    SubSeq(<<tx, Mark("rxack"), Rx(sc.r1), Mark("set_halted"), Mark("txack"), tx,
             Rx(sc.r2), go>>, 1, n)

\* sendcmd, had it returned the stop reply in place of the answer to the
\* retransmitted command
SendCmdSteps_FirstReply(h, t, sc, tx, go) ==
    IF tx.pkt = NoPacket THEN GRes("panic", "", <<>>, SendLog(tx, go, sc, 1), h, t)
    ELSE IF sc.fault = "write1" THEN GRes("err", "io", <<>>, <<>>, h, t)
    ELSE IF sc.fault = "ack" THEN GRes("err", "io", <<>>, SendLog(tx, go, sc, 1), h, t)
    ELSE IF sc.fault = "recv1" THEN GRes("err", "io", <<>>, SendLog(tx, go, sc, 2), h, t)
    ELSE IF ~Contains(sc.r1, StopMarker) THEN GdbFinish(sc.r1, SendLog(tx, go, sc, 3), h, t)
    ELSE IF sc.fault = "sendack"
    THEN GRes("err", "io", <<>>, SendLog(tx, go, sc, 4), TRUE, TRUE)
    ELSE IF sc.fault = "write2"
    THEN GRes("err", "io", <<>>, SendLog(tx, go, sc, 5), TRUE, TRUE)
    ELSE IF sc.fault = "recv2"
    THEN GRes("err", "io", <<>>, SendLog(tx, go, sc, 6), TRUE, TRUE)
    ELSE IF sc.fault = "writec"
    THEN GRes("err", "io", <<>>, SendLog(tx, go, sc, 7), TRUE, TRUE)
    ELSE GdbFinish(sc.r1, SendLog(tx, go, sc, 8), FALSE, FALSE)

\* GDBCore::sendcmd from the packets prepcmd made
SendCmdSteps(h, t, sc, tx, go) ==
    IF tx.pkt = NoPacket THEN GRes("panic", "", <<>>, SendLog(tx, go, sc, 1), h, t)
    ELSE IF sc.fault = "write1" THEN GRes("err", "io", <<>>, <<>>, h, t)
    ELSE IF sc.fault = "ack" THEN GRes("err", "io", <<>>, SendLog(tx, go, sc, 1), h, t)
    ELSE IF sc.fault = "recv1" THEN GRes("err", "io", <<>>, SendLog(tx, go, sc, 2), h, t)
    ELSE IF ~Contains(sc.r1, StopMarker) THEN GdbFinish(sc.r1, SendLog(tx, go, sc, 3), h, t)
    ELSE IF sc.fault = "sendack"
    THEN GRes("err", "io", <<>>, SendLog(tx, go, sc, 4), TRUE, TRUE)
    ELSE IF sc.fault = "write2"
    THEN GRes("err", "io", <<>>, SendLog(tx, go, sc, 5), TRUE, TRUE)
    ELSE IF sc.fault = "recv2"
    THEN GRes("err", "io", <<>>, SendLog(tx, go, sc, 6), TRUE, TRUE)
    ELSE IF sc.fault = "writec"
    THEN GRes("err", "io", <<>>, SendLog(tx, go, sc, 7), TRUE, TRUE)
    ELSE GdbFinish(sc.r2, SendLog(tx, go, sc, 8), FALSE, FALSE)

\* GDBCore::sendcmd with the halted flag h and the target halted iff t
GdbSendCmd(h, t, cmd, sc, checks) ==
    SendCmdSteps(h, t, sc, Tx(cmd, checks), Tx(CmdContinue, checks))

----------------------------------------------------------------------------
(* GDBCore: the Core methods *)

\* the value of a hex digit, -1 for any other character
HexVal(c) ==
    CASE c = "0" -> 0 [] c = "1" -> 1 [] c = "2" -> 2 [] c = "3" -> 3
      [] c = "4" -> 4 [] c = "5" -> 5 [] c = "6" -> 6 [] c = "7" -> 7
      [] c = "8" -> 8 [] c = "9" -> 9
      [] c \in {"a", "A"} -> 10 [] c \in {"b", "B"} -> 11 [] c \in {"c", "C"} -> 12
      [] c \in {"d", "D"} -> 13 [] c \in {"e", "E"} -> 14 [] c \in {"f", "F"} -> 15
      [] OTHER -> -1

\* the loop `for i in (0..rstr.len()).step_by(2)` with
\* `u8::from_str_radix(&rstr[i..=i + 1], 16)?` from (1-based) position i on:
\* slicing past the end of the string panics, a non-hex character is an Err
RECURSIVE DecodeHex(_, _, _)
DecodeHex(rstr, i, out) ==
    IF i > Len(rstr) THEN [kind |-> "", out |-> out]
    ELSE IF i + 1 > Len(rstr) THEN [kind |-> "panic", out |-> out]
    ELSE IF HexVal(rstr[i]) < 0 \/ HexVal(rstr[i + 1]) < 0
    THEN [kind |-> "parse", out |-> out]
    ELSE DecodeHex(rstr, i + 2, Append(out, 16 * HexVal(rstr[i]) + HexVal(rstr[i + 1])))

\* read_8 once sendcmd returned r; the data of the result are the bytes
\* stored at the front of the caller's buffer, the rest of which is left
\* as it was
Read8Decode(len, r) ==
    LET d == DecodeHex(r.data, 1, <<>>)
    IN  IF r.res # "ok" THEN [r EXCEPT !.data = <<>>]
        ELSE IF Len(r.data) > len * 2
        THEN GRes("err", "long", <<>>, r.log, r.halted, r.target)
        ELSE IF d.kind = "panic"
        THEN GRes("panic", "", d.out, r.log, r.halted, r.target)
        ELSE IF d.kind = "parse"
        THEN GRes("err", "parse", d.out, r.log, r.halted, r.target)
        ELSE GRes("ok", "", d.out, r.log, r.halted, r.target)

\* GDBCore::read_8
GdbRead8(h, t, addr, len, sc, checks) ==
    Read8Decode(len, GdbSendCmd(h, t, CmdReadMem(addr, len), sc, checks))

\* u32::from_le_bytes and u64::from_le_bytes, the result as two u32 halves
LeU32(b) == W(b[4] * 256 + b[3], b[2] * 256 + b[1])
Value64(hi, lo) == [hi |-> hi, lo |-> lo]
NoValue == Value64(Panicked, Panicked)

\* the registers of the model: their fixed protocol id (to_gdb_id), whether
\* is_general_purpose() and is_pc() hold, and to_string().to_lowercase()
RegInfo(reg) ==
    CASE reg = "R0" -> [id |-> 0, gp |-> TRUE, pc |-> FALSE, name |-> "r0"]
      [] reg = "PC" -> [id |-> 15, gp |-> TRUE, pc |-> TRUE, name |-> "pc"]
      [] reg = "PSR" -> [id |-> 16, gp |-> FALSE, pc |-> FALSE, name |-> "psr"]
      [] reg = "FPSCR" -> [id |-> 33, gp |-> FALSE, pc |-> FALSE, name |-> "fpscr"]
      [] reg = "RV_PC" -> [id |-> 32, gp |-> FALSE, pc |-> TRUE, name |-> "pc"]
      [] reg = "MSTATUS" -> [id |-> 833, gp |-> FALSE, pc |-> FALSE, name |-> "mstatus"]

\* HashMap<String, u32> as a set of entries with a unique name
TableHas(table, name) == \E e \in table : e.name = name
TableGet(table, name) == (CHOOSE e \in table : e.name = name).regnum
TablePut(table, name, regnum) ==
    {e \in table : e.name # name} \cup {[name |-> name, regnum |-> regnum]}

NoRegId == -1

\* the choice of reg_id, had the table been consulted for every register
GdbRegId_TableFirst(table, reg) ==
    IF TableHas(table, RegInfo(reg).name) THEN TableGet(table, RegInfo(reg).name)
    ELSE IF table = {} \/ RegInfo(reg).gp \/ RegInfo(reg).pc THEN RegInfo(reg).id
    ELSE NoRegId

\* the choice of reg_id in read_reg; NoRegId where it bails
GdbRegId(table, reg) ==
    IF table = {} \/ RegInfo(reg).gp \/ RegInfo(reg).pc THEN RegInfo(reg).id
    ELSE IF TableHas(table, RegInfo(reg).name) THEN TableGet(table, RegInfo(reg).name)
    ELSE NoRegId

\* read_reg once sendcmd returned r
ReadRegDecode(r) ==
    LET d == DecodeHex(r.data, 1, <<>>)
    IN  IF r.res # "ok" THEN [r EXCEPT !.data = NoValue]
        ELSE IF d.kind = "panic"
        THEN GRes("panic", "", NoValue, r.log, r.halted, r.target)
        ELSE IF d.kind = "parse"
        THEN GRes("err", "parse", NoValue, r.log, r.halted, r.target)
        ELSE IF Len(r.data) = 8
        THEN GRes("ok", "", Value64(Zero32, LeU32(d.out)), r.log, r.halted, r.target)
        ELSE IF Len(r.data) = 16
        THEN GRes("ok", "", Value64(LeU32(SubSeq(d.out, 5, 8)), LeU32(d.out)),
                  r.log, r.halted, r.target)
        ELSE GRes("err", "width", NoValue, r.log, r.halted, r.target)

\* GDBCore::read_reg
GdbReadReg(g, t, reg, sc, checks) ==
    IF GdbRegId(g.reg_table, reg) = NoRegId
    THEN GRes("err", "absent", NoValue, <<>>, g.halted, t)
    ELSE ReadRegDecode(GdbSendCmd(g.halted, t, CmdReadReg(GdbRegId(g.reg_table, reg)),
                                  sc, checks))

\* GDBCore::halt: firecmd("h"), recvdata, halted = true
GdbHalt(h, t, fault, checks) ==
    IF fault = "write1" THEN GRes("err", "io", <<>>, <<>>, h, t)
    ELSE IF fault = "recv1" THEN GRes("err", "io", <<>>, <<Tx(CmdHalt, checks)>>, h, TRUE)
    ELSE GRes("ok", "", <<>>, <<Tx(CmdHalt, checks), Rx(StopReply)>>, TRUE, TRUE)

\* GDBCore::run: `if self.halted`
GdbRun(h, t, fault, checks) ==
    IF ~h THEN GRes("ok", "", <<>>, <<>>, h, t)
    ELSE IF fault = "write1" THEN GRes("err", "io", <<>>, <<>>, h, t)
    ELSE GRes("ok", "", <<>>, <<Tx(CmdContinue, checks)>>, FALSE, FALSE)

\* write_reg, write_word_32, write_8, read_swv, load, reset: an Err
GdbRefuse(h, t) == GRes("err", "capability", <<>>, <<>>, h, t)

\* step, init_swv, and the default op_start and op_done: Ok(())
GdbNop(h, t) == GRes("ok", "", <<>>, <<>>, h, t)

----------------------------------------------------------------------------
(* GDBCore::new: the feature documents *)

(* A feature document is a sequence of characters, each the text of one XML
   element.  Element gives what the two XML parsers see of it: an include
   and its href, or a reg and its attributes in document order. *)
IncA == "<xi:include href='a.xml'/>"
IncB == "<xi:include href='b.xml'/>"
IncHuge == "<xi:include href='zzz...'/>"
RegPsr == "<reg name='psr' bitsize='32' regnum='25'/>"
RegFpscr == "<reg name='fpscr' bitsize='32' regnum='40'/>"
RegR0 == "<reg name='r0' bitsize='32' regnum='77'/>"
RegPc == "<reg name='pc' bitsize='32' regnum='99'/>"
RegMstatus == "<reg name='mstatus' bitsize='32' type='int' regnum='900'/>"
RegPlain == "<reg name='r1' bitsize='32' type='int'/>"

Include(href) == [tag |-> "include", href |-> href, attrs |-> <<"href">>,
                  name |-> "", regnum |-> 0]
Reg(name, attrs, regnum) ==
    [tag |-> "reg", href |-> "", attrs |-> attrs, name |-> name, regnum |-> regnum]

Element(c) ==
    CASE c = IncA -> Include("a.xml")
      [] c = IncB -> Include("b.xml")
      [] c = IncHuge -> Include("zzz...")
      [] c = RegPsr -> Reg("psr", <<"name", "bitsize", "regnum">>, 25)
      [] c = RegFpscr -> Reg("fpscr", <<"name", "bitsize", "regnum">>, 40)
      [] c = RegR0 -> Reg("r0", <<"name", "bitsize", "regnum">>, 77)
      [] c = RegPc -> Reg("pc", <<"name", "bitsize", "regnum">>, 99)
      [] c = RegMstatus -> Reg("mstatus", <<"name", "bitsize", "type", "regnum">>, 900)
      [] c = RegPlain -> Reg("r1", <<"name", "bitsize", "type">>, 0)

\* the bytes of a document's name; "zzz..." stands for a name of 36 million
\* 'z', whose bytes sum to more than 2^32
FileBytes(file) ==
    CASE file = "target.xml" -> Bytes(<<116, 97, 114, 103, 101, 116, 46, 120, 109, 108>>)
      [] file = "a.xml" -> Bytes(<<97, 46, 120, 109, 108>>)
      [] file = "b.xml" -> Bytes(<<98, 46, 120, 109, 108>>)
      [] file = "zzz..." -> <<Run(122, W(550, 0))>>

\* the documents a server holds, by name
Docs(target, a, b, huge) ==
    [target |-> target, a |-> a, b |-> b, huge |-> huge]

DocOf(docs, file) ==
    CASE file = "target.xml" -> docs.target
      [] file = "a.xml" -> docs.a
      [] file = "b.xml" -> docs.b
      [] file = "zzz..." -> docs.huge

DocStores ==
    { Docs(<<IncA, IncB>>, <<RegPsr, RegPlain>>, <<RegFpscr, RegR0, RegPc>>, <<>>),
      Docs(<<IncA>>, <<IncB, RegPsr>>, <<RegFpscr>>, <<>>),
      Docs(<<>>, <<>>, <<>>, <<>>),
      Docs(<<IncA, RegFpscr>>, <<RegPsr, RegMstatus>>, <<>>, <<>>),
      Docs(<<IncHuge>>, <<>>, <<>>, <<RegPsr>>) }

\* how many characters the server puts in one chunk
ChunkSizes == {1, 2, 8}

\* the server's answer to qXfer:features:read:<file>:<offset>,ffb: 'm' and
\* the next chunk, or 'l' and the last one
XferReply(server, file, offset) ==
    LET doc == DocOf(server.docs, file)
        end == Min(Len(doc), offset + server.chunk)
    IN  <<IF end < Len(doc) THEN "m" ELSE "l">> \o SubSeq(doc, offset + 1, end)

\* `chars.next()` then `as_str()`: the text without its first character
Rest(text) == IF text = <<>> THEN <<>> ELSE Tail(text)

----------------------------------------------------------------------------
(* GDBCore::new: connecting and reading the register table *)

\* one document as it was fetched: the offsets requested and the text used
Fetched(file, offsets, used) == [file |-> file, offsets |-> offsets, used |-> used]

\* GDBCore::fetch_xml from the loop's state (len_read, features) on; the
\* server answers each request without a fault.  FetchXmlReply is the body
\* of the loop once sendcmd returned r.
RECURSIVE FetchXml(_, _, _, _, _, _, _, _)
RECURSIVE FetchXmlReply(_, _, _, _, _, _, _, _, _)
FetchXmlReply(server, h, t, file, len_read, features, asked, checks, r) ==
    IF r.res = "panic" THEN [res |-> "panic", log |-> r.log, fetched |-> Fetched(file, asked, features)]
    ELSE IF r.res = "err" THEN [res |-> "err", log |-> r.log, fetched |-> Fetched(file, asked, features)]
    ELSE IF r.data = <<>> THEN [res |-> "panic", log |-> r.log, fetched |-> Fetched(file, asked, features)]
    ELSE IF r.data[1] = "l"
    THEN [res |-> "ok", log |-> r.log,
          fetched |-> Fetched(file, asked, features \o Rest(r.data))]
    ELSE [FetchXml(server, h, t, file, len_read + Len(r.data) - 1,
                   features \o Rest(r.data), asked, checks)
          EXCEPT !.log = r.log \o @]

FetchXml(server, h, t, file, len_read, features, offsets, checks) ==
    FetchXmlReply(server, h, t, file, len_read, features, Append(offsets, len_read), checks,
                  GdbSendCmd(h, t, CmdXfer(FileBytes(file), len_read),
                             Script("none", XferReply(server, file, len_read), <<>>),
                             checks))

\* the loop of request_and_parse over the children of the root element
RECURSIVE ParseRegs(_, _, _)
ParseRegs(features, k, table) ==
    IF k > Len(features) THEN table
    ELSE LET e == Element(features[k]) IN
         IF e.tag = "reg" /\ Len(e.attrs) = 3 /\ e.attrs[3] = "regnum"
         THEN ParseRegs(features, k + 1, TablePut(table, e.name, e.regnum))
         ELSE ParseRegs(features, k + 1, table)

\* the href attributes feature_xml_parser finds, in order
RECURSIVE Hrefs(_, _)
Hrefs(xml, k) ==
    IF k > Len(xml) THEN <<>>
    ELSE IF "href" \in {Element(xml[k]).attrs[i] : i \in 1..Len(Element(xml[k]).attrs)}
    THEN <<Element(xml[k]).href>> \o Hrefs(xml, k + 1)
    ELSE Hrefs(xml, k + 1)

\* GDBCore::feature_xml_parser: request_and_parse for include k on;
\* `fetch_xml(..).unwrap()` panics where fetch_xml returns an Err.
\* ParseFetched is request_and_parse once fetch_xml returned f.
RECURSIVE ParseIncludes(_, _, _, _, _, _, _, _)
RECURSIVE ParseFetched(_, _, _, _, _, _, _, _, _)
ParseFetched(server, h, t, includes, k, table, acc, checks, f) ==
    IF f.res # "ok"
    THEN [res |-> "panic", table |-> table, log |-> acc.log \o f.log,
          fetches |-> Append(acc.fetches, f.fetched)]
    ELSE ParseIncludes(server, h, t, includes, k + 1, ParseRegs(f.fetched.used, 1, table),
                       [log |-> acc.log \o f.log,
                        fetches |-> Append(acc.fetches, f.fetched)], checks)

ParseIncludes(server, h, t, includes, k, table, acc, checks) ==
    IF k > Len(includes)
    THEN [res |-> "ok", table |-> table, log |-> acc.log, fetches |-> acc.fetches]
    ELSE ParseFetched(server, h, t, includes, k, table, acc, checks,
                      FetchXml(server, h, t, includes[k], 0, <<>>, <<>>, checks))

NewRes(res, halted, was_halted, target, table, log, fetches) ==
    [res |-> res, halted |-> halted, was_halted |-> was_halted, target |-> target,
     table |-> table, log |-> log, fetches |-> fetches]

\* the server's answer to qSupported
SupportedReply == <<"q", "X", "f", "e", "r", ":", "f", "e", "a", "t", "u", "r", "e", "s", ":", "r", "e", "a", "d", "+">>

\* the end of new: p is what feature_xml_parser returned
NewTable(was, p) == NewRes(p.res, was, was, was, p.table, p.log, p.fetches)

\* new once the target runs: l0 is what crossed the wire so far, q the
\* result of sendcmd("qSupported"), top that of the request for target.xml
NewFeatures(server, was, checks, l0, q, top) ==
    NewTable(was, ParseIncludes(server, was, was, Hrefs(Rest(top.data), 1), 1, {},
                                [log |-> l0 \o q.log \o top.log,
                                 fetches |-> <<Fetched("target.xml", <<0>>, Rest(top.data))>>],
                                checks))

\* GDBCore::new.  `greeting` is what the first recvdata returns: "stop" a
\* stop reply (the server halted a running target), "none" nothing (the
\* read times out: the target was halted already), "other" another packet
GdbNew(server, greeting, checks) ==
    IF greeting = "other" THEN NewRes("err", TRUE, TRUE, TRUE, {}, <<>>, <<>>)
    ELSE NewFeatures(server, greeting = "none", checks,
                     IF greeting = "stop" THEN <<Rx(StopReply), Tx(CmdContinue, checks)>>
                     ELSE <<>>,
                     GdbSendCmd(greeting = "none", greeting = "none", CmdSupported,
                                Script("none", SupportedReply, <<>>), checks),
                     GdbSendCmd(greeting = "none", greeting = "none",
                                CmdXfer(FileBytes("target.xml"), 0),
                                Script("none", XferReply(server, "target.xml", 0), <<>>),
                                checks))

----------------------------------------------------------------------------
(* GDBCore: the calls a client makes *)

Registers == {"R0", "PC", "PSR", "FPSCR", "RV_PC", "MSTATUS"}

\* replies to a register read: 0 to 18 characters, hex or not
RegReplies ==
    { <<>>, <<"1">>, <<"1", "2">>, <<"1", "2", "3">>, <<"1", "2", "3", "4">>, <<"7", "8", "5", "6", "3", "4", "1">>, <<"7", "8", "5", "6", "3", "4", "1", "2">>, <<"z", "z", "5", "6", "3", "4", "1", "2">>, <<"7", "8", "5", "6", "3", "4", "1", "2", "0">>, <<"0", "1", "2", "3", "4", "5", "6", "7", "8", "9", "a", "b">>, <<"e", "f", "c", "d", "a", "b", "8", "9", "6", "7", "4", "5", "2", "3", "0", "1">>, <<"e", "f", "c", "d", "a", "b", "8", "9", "6", "7", "4", "5", "2", "3", "0", "1", "0">>, <<"e", "f", "c", "d", "a", "b", "8", "9", "6", "7", "4", "5", "2", "3", "0", "1", "0", "0">>, <<"E", "0", "1">> }

\* replies to a memory read
MemReplies ==
    { <<>>, <<"4">>, <<"4", "1">>, <<"4", "1", "4">>, <<"4", "1", "4", "2">>, <<"4", "1", "4", "2", "4", "3", "4", "4">>, <<"4", "1", "4", "2", "4", "3", "4", "4", "4", "5">>, <<"z", "z">>, <<"E", "0", "1">> }

\* the server's behaviours during one sendcmd whose answer is one of
\* `replies`: a fault before the answer, the answer, or a stop reply first
\* and then a fault, the answer or a second stop reply
Scripts(replies) ==
    {Script(f, <<>>, <<>>) : f \in {"write1", "ack", "recv1"}}
    \cup {Script("none", r, <<>>) : r \in replies}
    \cup {Script(f, StopReply, <<>>) : f \in {"sendack", "write2", "recv2", "writec"}}
    \cup {Script("none", StopReply, r) : r \in replies \cup {StopReply}}

GdbRead8Args ==
    { [addr |-> 0, len |-> 4], [addr |-> 536870912, len |-> 0],
      [addr |-> 536870912, len |-> 1], [addr |-> 536870912, len |-> 2],
      [addr |-> 134217728, len |-> CORE_MAX_READSIZE + 1] }

\* an over-long read is tried with a short answer only
GdbRead8Scripts(len) ==
    IF len > CORE_MAX_READSIZE
    THEN {Script("none", <<>>, <<>>), Script("none", <<"4", "1">>, <<>>)}
    ELSE Scripts(MemReplies)

\* the halted flag when a call was made, kept in the call record's `pre`
Flag(b) == IF b THEN One32 ELSE Zero32

GdbDo(op, arg, r, sc) ==
    /\ gdb' = [gdb EXCEPT !.halted = r.halted]
    /\ target_halted' = r.target
    /\ aborted' = (r.res = "panic")
    /\ last' = CallX(op, arg, r.res, r.log, Flag(gdb.halted), r.kind, sc, r.data)
    /\ UNCHANGED <<backend, overflow_checks, probe, ocd, at_connect, chip, conv, dump, gdbserver, br>>

NoScript == Script("none", <<>>, <<>>)
RegArg(reg) == [addr |-> Zero32, len |-> 0, reg |-> reg]

\* GDBCore::new
GNew ==
    /\ backend = "gdb" /\ gdb.phase = "connecting" /\ last = Idle /\ ~aborted
    /\ LET r == GdbNew(gdbserver, gdbserver.greeting, overflow_checks) IN
        /\ gdb' = [phase |-> IF r.res = "ok" THEN "ready" ELSE "failed",
                   halted |-> r.halted, was_halted |-> r.was_halted,
                   reg_table |-> r.table]
        /\ target_halted' = r.target
        /\ aborted' = (r.res = "panic")
        /\ last' = CallX("new", NoArg, r.res, r.log, Flag(TRUE), "", NoScript, r.fetches)
    /\ UNCHANGED <<backend, overflow_checks, probe, ocd, at_connect, chip, conv, dump, gdbserver, br>>

GRead8 ==
    /\ backend = "gdb" /\ gdb.phase = "ready" /\ last = Idle /\ ~aborted
    /\ \E a \in GdbRead8Args : \E sc \in GdbRead8Scripts(a.len) :
        GdbDo("read_8", [addr |-> FromNat(a.addr), len |-> a.len],
              GdbRead8(gdb.halted, target_halted, a.addr, a.len, sc, overflow_checks), sc)

GReadReg ==
    /\ backend = "gdb" /\ gdb.phase = "ready" /\ last = Idle /\ ~aborted
    /\ \E reg \in Registers, sc \in Scripts(RegReplies) :
        GdbDo("read_reg", RegArg(reg),
              GdbReadReg(gdb, target_halted, reg, sc, overflow_checks), sc)

GHalt ==
    /\ backend = "gdb" /\ gdb.phase = "ready" /\ last = Idle /\ ~aborted
    /\ \E fault \in {"none", "write1", "recv1"} :
        GdbDo("halt", NoArg, GdbHalt(gdb.halted, target_halted, fault, overflow_checks),
              NoScript)

GRun ==
    /\ backend = "gdb" /\ gdb.phase = "ready" /\ last = Idle /\ ~aborted
    /\ \E fault \in {"none", "write1"} :
        GdbDo("run", NoArg, GdbRun(gdb.halted, target_halted, fault, overflow_checks),
              NoScript)

GOther ==
    /\ backend = "gdb" /\ gdb.phase = "ready" /\ last = Idle /\ ~aborted
    /\ \/ \E op \in {"write_reg", "write_word_32", "write_8", "read_swv", "load", "reset"} :
            GdbDo(op, NoArg, GdbRefuse(gdb.halted, target_halted), NoScript)
       \/ \E op \in {"step", "init_swv", "op_start", "op_done"} :
            GdbDo(op, NoArg, GdbNop(gdb.halted, target_halted), NoScript)

----------------------------------------------------------------------------
(* Registers: the two register enums and the converters between id spaces *)

\* a variant written without a discriminant: one more than the variant before
Implicit == -1

\* enum ARMRegister, in declaration order: the variant and the discriminant
\* written for it
ARMRegister ==
    <<<<"R0", 0>>, <<"R1", Implicit>>, <<"R2", Implicit>>,
      <<"R3", Implicit>>, <<"R4", Implicit>>, <<"R5", Implicit>>,
      <<"R6", Implicit>>, <<"R7", Implicit>>, <<"R8", Implicit>>,
      <<"R9", Implicit>>, <<"R10", Implicit>>, <<"R11", Implicit>>,
      <<"R12", Implicit>>, <<"SP", 13>>, <<"LR", 14>>, <<"PC", 15>>,
      <<"PSR", 16>>, <<"MSP", 17>>, <<"PSP", 18>>, <<"SPR", 20>>,
      <<"FPSCR", 33>>, <<"S0", 64>>, <<"S1", Implicit>>, <<"S2", Implicit>>,
      <<"S3", Implicit>>, <<"S4", Implicit>>, <<"S5", Implicit>>,
      <<"S6", Implicit>>, <<"S7", Implicit>>, <<"S8", Implicit>>,
      <<"S9", Implicit>>, <<"S10", Implicit>>, <<"S11", Implicit>>,
      <<"S12", Implicit>>, <<"S13", Implicit>>, <<"S14", Implicit>>,
      <<"S15", Implicit>>, <<"S16", Implicit>>, <<"S17", Implicit>>,
      <<"S18", Implicit>>, <<"S19", Implicit>>, <<"S20", Implicit>>,
      <<"S21", Implicit>>, <<"S22", Implicit>>, <<"S23", Implicit>>,
      <<"S24", Implicit>>, <<"S25", Implicit>>, <<"S26", Implicit>>,
      <<"S27", Implicit>>, <<"S28", Implicit>>, <<"S29", Implicit>>,
      <<"S30", Implicit>>, <<"S31", Implicit>>>>

\* enum RVRegister, in declaration order
RVRegister ==
    <<<<"CSR_START", 0>>, <<"MSTATUS", 768>>, <<"MISA", Implicit>>,
      <<"MEDELEG", Implicit>>, <<"MIDELEG", Implicit>>, <<"MIE", Implicit>>,
      <<"MTVEC", Implicit>>, <<"MSTATUSH", 784>>, <<"MSCRATCH", 832>>,
      <<"MEPC", Implicit>>, <<"MCAUSE", Implicit>>, <<"MTVAL", Implicit>>,
      <<"MIP", Implicit>>, <<"PMPCFG0", 928>>, <<"PMPCFG1", Implicit>>,
      <<"PMPCFG2", Implicit>>, <<"PMPCFG3", Implicit>>,
      <<"PMPCFG4", Implicit>>, <<"PMPCFG5", Implicit>>,
      <<"PMPCFG6", Implicit>>, <<"PMPCFG7", Implicit>>,
      <<"PMPCFG8", Implicit>>, <<"PMPCFG9", Implicit>>,
      <<"PMPCFG10", Implicit>>, <<"PMPCFG11", Implicit>>,
      <<"PMPCFG12", Implicit>>, <<"PMPCFG13", Implicit>>,
      <<"PMPCFG14", Implicit>>, <<"PMPCFG15", Implicit>>,
      <<"PMPADDR0", 944>>, <<"PMPADDR1", Implicit>>,
      <<"PMPADDR2", Implicit>>, <<"PMPADDR3", Implicit>>,
      <<"PMPADDR4", Implicit>>, <<"PMPADDR5", Implicit>>,
      <<"PMPADDR6", Implicit>>, <<"PMPADDR7", Implicit>>,
      <<"PMPADDR8", Implicit>>, <<"PMPADDR9", Implicit>>,
      <<"PMPADDR10", Implicit>>, <<"PMPADDR11", Implicit>>,
      <<"PMPADDR12", Implicit>>, <<"PMPADDR13", Implicit>>,
      <<"PMPADDR14", Implicit>>, <<"PMPADDR15", Implicit>>,
      <<"PMPADDR16", Implicit>>, <<"PMPADDR17", Implicit>>,
      <<"PMPADDR18", Implicit>>, <<"PMPADDR19", Implicit>>,
      <<"PMPADDR20", Implicit>>, <<"PMPADDR21", Implicit>>,
      <<"PMPADDR22", Implicit>>, <<"PMPADDR23", Implicit>>,
      <<"PMPADDR24", Implicit>>, <<"PMPADDR25", Implicit>>,
      <<"PMPADDR26", Implicit>>, <<"PMPADDR27", Implicit>>,
      <<"PMPADDR28", Implicit>>, <<"PMPADDR29", Implicit>>,
      <<"PMPADDR30", Implicit>>, <<"PMPADDR31", Implicit>>,
      <<"PMPADDR32", Implicit>>, <<"PMPADDR33", Implicit>>,
      <<"PMPADDR34", Implicit>>, <<"PMPADDR35", Implicit>>,
      <<"PMPADDR36", Implicit>>, <<"PMPADDR37", Implicit>>,
      <<"PMPADDR38", Implicit>>, <<"PMPADDR39", Implicit>>,
      <<"PMPADDR40", Implicit>>, <<"PMPADDR41", Implicit>>,
      <<"PMPADDR42", Implicit>>, <<"PMPADDR43", Implicit>>,
      <<"PMPADDR44", Implicit>>, <<"PMPADDR45", Implicit>>,
      <<"PMPADDR46", Implicit>>, <<"PMPADDR47", Implicit>>,
      <<"PMPADDR48", Implicit>>, <<"PMPADDR49", Implicit>>,
      <<"PMPADDR50", Implicit>>, <<"PMPADDR51", Implicit>>,
      <<"PMPADDR52", Implicit>>, <<"PMPADDR53", Implicit>>,
      <<"PMPADDR54", Implicit>>, <<"PMPADDR55", Implicit>>,
      <<"PMPADDR56", Implicit>>, <<"PMPADDR57", Implicit>>,
      <<"PMPADDR58", Implicit>>, <<"PMPADDR59", Implicit>>,
      <<"PMPADDR60", Implicit>>, <<"PMPADDR61", Implicit>>,
      <<"PMPADDR62", Implicit>>, <<"PMPADDR63", Implicit>>,
      <<"MSECCFG", 1863>>, <<"MSECCFGH", 1879>>, <<"DCSR", 1968>>,
      <<"PC", 1969>>, <<"CSR_END", 4095>>, <<"ZERO", 4096>>,
      <<"RA", Implicit>>, <<"SP", Implicit>>, <<"GP", Implicit>>,
      <<"TP", Implicit>>, <<"T0", Implicit>>, <<"T1", Implicit>>,
      <<"T2", Implicit>>, <<"S0", Implicit>>, <<"S1", Implicit>>,
      <<"A0", Implicit>>, <<"A1", Implicit>>, <<"A2", Implicit>>,
      <<"A3", Implicit>>, <<"A4", Implicit>>, <<"A5", Implicit>>,
      <<"A6", Implicit>>, <<"A7", Implicit>>, <<"S2", Implicit>>,
      <<"S3", Implicit>>, <<"S4", Implicit>>, <<"S5", Implicit>>,
      <<"S6", Implicit>>, <<"S7", Implicit>>, <<"S8", Implicit>>,
      <<"S9", Implicit>>, <<"S10", Implicit>>, <<"S11", Implicit>>,
      <<"T3", Implicit>>, <<"T4", Implicit>>, <<"T5", Implicit>>,
      <<"T6", Implicit>>, <<"FPR_START", 4128>>, <<"FPR_END", 4159>>,
      <<"CUSTOM_START", 49152>>, <<"CUSTOM_END", 65535>>>>

\* the enum of an architecture
RegisterEnum(arch) == IF arch = "arm" THEN ARMRegister ELSE RVRegister

\* the discriminant of the i-th variant: the last one written at or before
\* it, plus the number of variants since
Discriminant(decl, i) ==
    LET j == CHOOSE k \in 1..i :
                 /\ decl[k][2] # Implicit
                 /\ \A m \in (k + 1)..i : decl[m][2] = Implicit
    IN decl[j][2] + (i - j)

ARMDiscriminants == [i \in 1..Len(ARMRegister) |-> Discriminant(ARMRegister, i)]
RVDiscriminants == [i \in 1..Len(RVRegister) |-> Discriminant(RVRegister, i)]
Discriminants(arch) == IF arch = "arm" THEN ARMDiscriminants ELSE RVDiscriminants

\* the position of a variant in its enum
Variant(arch, reg) ==
    CHOOSE i \in 1..Len(RegisterEnum(arch)) : RegisterEnum(arch)[i][1] = reg

\* derive(EnumIter): every variant, in declaration order
EnumIter(decl) == {decl[i][1] : i \in 1..Len(decl)}

\* get_all_registers of an architecture
get_all_registers(arch) == EnumIter(RegisterEnum(arch))

\* derive(ToPrimitive): the discriminant
to_u32(arch, reg) == Discriminants(arch)[Variant(arch, reg)]

NoRegister == "None"

\* derive(FromPrimitive): the variant with that discriminant, or None
from_u32(arch, id) ==
    IF \E i \in 1..Len(RegisterEnum(arch)) : Discriminants(arch)[i] = id
    THEN RegisterEnum(arch)[CHOOSE i \in 1..Len(RegisterEnum(arch)) :
                                Discriminants(arch)[i] = id][1]
    ELSE NoRegister

\* Result<Register>: Some(r) is Ok(r), None the error
OkOrElse(r) == IF r = NoRegister THEN "Err" ELSE r

\* RVRegister::is_special, ::is_general_purpose: the derived ordering
\* compares discriminants
RVRegister_is_special(reg) ==
    /\ to_u32("riscv", reg) >= to_u32("riscv", "CSR_START")
    /\ to_u32("riscv", reg) <= to_u32("riscv", "CSR_END")

RVRegister_is_general_purpose(reg) ==
    /\ to_u32("riscv", reg) >= to_u32("riscv", "ZERO")
    /\ to_u32("riscv", reg) <= to_u32("riscv", "T6")

ARMRegister_is_general_purpose(reg) ==
    reg \in {"R0", "R1", "R2", "R3", "R4", "R5", "R6", "R7", "R8", "R9", "R10",
             "R11", "R12", "SP", "PC", "LR"}

is_general_purpose(arch, reg) ==
    IF arch = "arm" THEN ARMRegister_is_general_purpose(reg)
    ELSE RVRegister_is_general_purpose(reg)

\* ARMRegister::to_gdb_id
ARMRegister_to_gdb_id(reg) == to_u32("arm", reg)

\* reg_id -= 0x1000 on a u32 below 0x1000: a panic or a wrapped value, as
\* the build has it; no variant outside the CSR range is that small
Underflow == -2

\* RVRegister::to_gdb_id
RVRegister_to_gdb_id(reg) ==
    IF reg = "PC" THEN 32
    ELSE IF ~RVRegister_is_special(reg)
         THEN IF to_u32("riscv", reg) >= 4096 THEN to_u32("riscv", reg) - 4096
              ELSE Underflow
         ELSE to_u32("riscv", reg) + 65

\* Register::to_gdb_id
to_gdb_id(arch, reg) ==
    IF arch = "arm" THEN ARMRegister_to_gdb_id(reg) ELSE RVRegister_to_gdb_id(reg)

\* register_from_id, had it renumbered the low ids as the DWARF converter does
register_from_id_renumbered(arch, id) ==
    IF arch = "riscv" /\ id < 64 THEN OkOrElse(from_u32(arch, id + 4096))
    ELSE OkOrElse(from_u32(arch, id))

\* ARMArch::register_from_id and RVArch::register_from_id
register_from_id(arch, id) == OkOrElse(from_u32(arch, id))

\* RVArch::register_from_dwarf_id; "panic" is unimplemented!()
RVArch_register_from_dwarf_id(id) ==
    IF id >= 4096 /\ id < 8192 THEN OkOrElse(from_u32("riscv", id - 4096))
    ELSE IF id < 64 THEN OkOrElse(from_u32("riscv", id + 4096))
    ELSE IF id >= 96 /\ id < 128 THEN "panic"
    ELSE OkOrElse(from_u32("riscv", id))

\* ARMArch::register_from_dwarf_id
ARMArch_register_from_dwarf_id(id) == OkOrElse(from_u32("arm", id))

register_from_dwarf_id(arch, id) ==
    IF arch = "arm" THEN ARMArch_register_from_dwarf_id(id)
    ELSE RVArch_register_from_dwarf_id(id)

\* ARMArch::get_syscall_register and RVArch::get_syscall_register;
\* arg_number is a u8
get_syscall_register(arch, arg_number) ==
    IF arg_number > 8 THEN "Err"
    ELSE register_from_id(arch, to_u32(arch, IF arch = "arm" THEN "R4" ELSE "A0")
                                + arg_number)

\* the match arms of impl From<&RegId> for ARMRegister: the disassembler's
\* constant and the variant it gives
ARMRegister_from ==
    <<<<"ARM_REG_R0", "R0">>, <<"ARM_REG_R1", "R1">>, <<"ARM_REG_R2", "R2">>,
      <<"ARM_REG_R3", "R3">>, <<"ARM_REG_R4", "R4">>, <<"ARM_REG_R5", "R5">>,
      <<"ARM_REG_R6", "R6">>, <<"ARM_REG_R7", "R7">>, <<"ARM_REG_R8", "R8">>,
      <<"ARM_REG_R9", "R9">>, <<"ARM_REG_R10", "R10">>,
      <<"ARM_REG_R11", "R11">>, <<"ARM_REG_R12", "R12">>,
      <<"ARM_REG_SP", "SP">>, <<"ARM_REG_PC", "PC">>, <<"ARM_REG_LR", "LR">>>>

\* the match arms of impl From<&RegId> for RVRegister
RVRegister_from ==
    <<<<"RISCV_REG_ZERO", "ZERO">>, <<"RISCV_REG_RA", "RA">>,
      <<"RISCV_REG_SP", "SP">>, <<"RISCV_REG_GP", "TP">>,
      <<"RISCV_REG_T0", "T0">>, <<"RISCV_REG_T1", "T1">>,
      <<"RISCV_REG_T2", "T2">>, <<"RISCV_REG_T3", "T3">>,
      <<"RISCV_REG_T4", "T4">>, <<"RISCV_REG_T5", "T5">>,
      <<"RISCV_REG_T6", "T6">>, <<"RISCV_REG_TP", "TP">>,
      <<"RISCV_REG_S0", "S0">>, <<"RISCV_REG_S1", "S1">>,
      <<"RISCV_REG_S2", "S2">>, <<"RISCV_REG_S3", "S3">>,
      <<"RISCV_REG_S4", "S4">>, <<"RISCV_REG_S5", "S5">>,
      <<"RISCV_REG_S6", "S6">>, <<"RISCV_REG_S7", "S7">>,
      <<"RISCV_REG_S8", "S8">>, <<"RISCV_REG_S9", "S9">>,
      <<"RISCV_REG_S10", "S10">>, <<"RISCV_REG_S11", "S11">>>>

\* a match on the disassembler's constant: the first arm that names it, the
\* `_` arm (panic!) where none does
MatchRegId(arms, regid) ==
    IF \E i \in 1..Len(arms) : arms[i][1] = regid
    THEN arms[CHOOSE i \in 1..Len(arms) :
                  /\ arms[i][1] = regid
                  /\ \A k \in 1..(i - 1) : arms[k][1] # regid][2]
    ELSE "panic"

\* impl From<&RegId> for the register enum of an architecture
from_regid(arch, regid) ==
    MatchRegId(IF arch = "arm" THEN ARMRegister_from ELSE RVRegister_from, regid)

----------------------------------------------------------------------------
(* Architectures: a task's registers as saved at a system call *)

NREGS_CORE == 8

\* u32::from_le_bytes of bytes o .. o + 3 of a buffer (offsets from 0)
from_le_bytes(buf, o) ==
    W(buf[o + 4] * 256 + buf[o + 3], buf[o + 2] * 256 + buf[o + 1])

\* a BTreeMap<Register, u32> as a function over the registers it holds
RegsInsert(m, k, v) == [x \in DOMAIN m \cup {k} |-> IF x = k THEN v ELSE m[x]]

\* psr & (1 << 9)
Bit9(psr) == (psr[2] \div 512) % 2

\* ARMArch::exception_stack_realign
exception_stack_realign(regs) ==
    IF "PSR" \in DOMAIN regs /\ Bit9(regs["PSR"]) # 0 THEN 4 ELSE 0

\* a second loop that takes the r-th word for register r
StackedRegister_Numbered(r) == register_from_id("arm", r)

\* the register the r-th word of the exception stack is
StackedRegister(r) ==
    IF r <= 3 THEN register_from_id("arm", r)
    ELSE IF r = 4 THEN "R12"
    ELSE IF r = 5 THEN "LR"
    ELSE IF r = 6 THEN "PC"
    ELSE "PSR"

\* the first loop: r4 .. r11 out of the saved-state structure
RECURSIVE SavedLoop(_, _, _)
SavedLoop(rval, saved, r) ==
    IF r > 11 THEN rval
    ELSE SavedLoop(RegsInsert(rval, register_from_id("arm", r), saved[r]), saved, r + 1)

\* the second loop: the NREGS_CORE words read at psp
RECURSIVE StackLoop(_, _, _)
StackLoop(rval, stack, r) ==
    IF r >= NREGS_CORE THEN rval
    ELSE StackLoop(RegsInsert(rval, StackedRegister(r), from_le_bytes(stack, r * 4)),
                   stack, r + 1)

\* (nregs_fp, align) of the target, as the number of words of the frame
nregs_frame(target) ==
    IF target = "thumbv6m-none-eabi" THEN NREGS_CORE + 0 + 0 ELSE NREGS_CORE + 17 + 1

SavedOut(res, regs) == [res |-> res, regs |-> regs]

\* the end of read_saved_task_regs: SP is inserted as sp + adjust
InsertSp(rval, sp, adjust, checks) ==
    IF IsPanic(AddU32(sp, FromNat(adjust), checks)) THEN SavedOut("panic", <<>>)
    ELSE SavedOut("ok", RegsInsert(rval, "SP", AddU32(sp, FromNat(adjust), checks)))

AdjustSp(rval, sp, target, checks) ==
    InsertSp(rval, sp, nregs_frame(target) * 4 + exception_stack_realign(rval), checks)

\* ARMArch::read_saved_task_regs on a saved-state structure that has the
\* members r4..r11 and psp (or lacks them), where core.read_8(psp, ..)
\* fills `stack` (or fails)
ARMArch_read_saved_task_regs(in, checks) ==
    IF ~in.members THEN SavedOut("err", <<>>)
    ELSE IF in.read # "ok" THEN SavedOut("err", <<>>)
    ELSE AdjustSp(StackLoop(SavedLoop(<<>>, in.saved, 4), in.stack, 0),
                  in.psp, in.target, checks)

\* the core.read_8 calls read_saved_task_regs makes: none before psp has
\* been found in the structure, then one for the NREGS_CORE words at psp
SavedReads(in) ==
    IF ~in.members THEN <<>>
    ELSE <<[addr |-> in.psp, len |-> NREGS_CORE * 4]>>

\* what a call returned, with the reads it made of the core
WithReads(out, reads) == [res |-> out.res, regs |-> out.regs, reads |-> reads]

----------------------------------------------------------------------------
(* The receive loops of OpenOCDCore::sendcmd and GDBCore::recvdata, one   *)
(* stream.read at a time.  Text is a sequence of byte values.              *)

OPENOCD_COMMAND_DELIMITER == 26

\* stream.read: Err, or Ok(n) with the n bytes it left at the start of rbuf
\* (Ok(0) once the peer has closed the connection)
ReadErr == <<-1>>

\* str::from_utf8 succeeds; the bytes of the model are one-byte characters
\* or 0xff, which no UTF-8 text holds
Utf8(bytes) == \A i \in 1..Len(bytes) : bytes[i] < 128

NotFound == -1

\* str::find of a character: the offset (from 0) of its first occurrence
Find(text, ch) ==
    IF \E i \in 1..Len(text) : text[i] = ch
    THEN (CHOOSE i \in 1..Len(text) :
              text[i] = ch /\ \A k \in 1..(i - 1) : text[k] # ch) - 1
    ELSE NotFound

\* "Error: " and "invalid command name "
ErrorText == <<69, 114, 114, 111, 114, 58, 32>>
InvalidText ==
    <<105, 110, 118, 97, 108, 105, 100, 32, 99, 111, 109, 109, 97, 110, 100, 32,
      110, 97, 109, 101, 32>>

\* a receive loop: res is "reading" while it runs, then "ok", "err" or
\* "panic"; result is the String it accumulates, out what it returns
Loop(fn, res, result, out, reads, broken) ==
    [fn |-> fn, res |-> res, result |-> result, out |-> out, reads |-> reads,
     broken |-> broken]

Reading(st, result) == [st EXCEPT !.result = result, !.reads = @ + 1]
Returned(st, res, result, out) ==
    [st EXCEPT !.res = res, !.result = result, !.out = out, !.reads = @ + 1]

\* the tail of OpenOCDCore::sendcmd, after the loop
SendcmdTail(st, result) ==
    IF Contains(result, ErrorText) THEN Returned(st, "err", result, <<>>)
    ELSE IF Contains(result, InvalidText) THEN Returned(st, "err", result, <<>>)
    ELSE Returned(st, "ok", result, result)

\* one turn of the loop of OpenOCDCore::sendcmd on what the read gave.
\* rbuf[rval - 1] with rval = 0 panics in every build: on the subtraction
\* with overflow checks, on the index usize::MAX without them
SendcmdRead(st, rd) ==
    IF rd = ReadErr THEN Returned(st, "err", st.result, <<>>)
    ELSE IF Len(rd) = 0 THEN Returned(st, "panic", st.result, <<>>)
    ELSE IF rd[Len(rd)] = OPENOCD_COMMAND_DELIMITER
    THEN IF ~Utf8(SubSeq(rd, 1, Len(rd) - 1)) THEN Returned(st, "err", st.result, <<>>)
         ELSE SendcmdTail(st, st.result \o SubSeq(rd, 1, Len(rd) - 1))
    ELSE IF ~Utf8(rd) THEN Returned(st, "err", st.result, <<>>)
    ELSE Reading(st, st.result \o rd)

\* the tail of GDBCore::recvdata, after the loop
RecvdataTail(st, result) ==
    IF Find(result, GDB_PACKET_START) = NotFound THEN Returned(st, "err", result, <<>>)
    ELSE IF Find(result, GDB_PACKET_END) < Find(result, GDB_PACKET_START)
    THEN Returned(st, "err", result, <<>>)
    ELSE Returned(st, "ok", result,
                  SubSeq(result, Find(result, GDB_PACKET_START) + 2,
                         Find(result, GDB_PACKET_END)))

\* the loop of GDBCore::recvdata once the read's bytes are pushed.
\* result.len() - 3 on a shorter result panics with overflow checks and
\* wraps to a value no offset equals without them
RecvdataPushed(st, result, checks) ==
    IF Find(result, GDB_PACKET_END) = NotFound THEN Reading(st, result)
    ELSE IF Len(result) < 3
    THEN IF checks THEN Returned(st, "panic", result, <<>>) ELSE Reading(st, result)
    ELSE IF Find(result, GDB_PACKET_END) = Len(result) - 3 THEN RecvdataTail(st, result)
    ELSE Reading(st, result)

\* one turn of the loop of GDBCore::recvdata on what the read gave
RecvdataRead(st, rd, checks) ==
    IF rd = ReadErr THEN Returned(st, "err", st.result, <<>>)
    ELSE IF ~Utf8(rd) THEN Returned(st, "err", st.result, <<>>)
    ELSE RecvdataPushed(st, st.result \o rd, checks)

----------------------------------------------------------------------------
(* Bulk register operations: the registers command and the RISC-V saved    *)
(* registers                                                               *)

ARMRegister_is_floating_point(reg) == to_u32("arm", reg) >= to_u32("arm", "S0")

RVRegister_is_floating_point(reg) ==
    /\ to_u32("riscv", reg) >= to_u32("riscv", "FPR_START")
    /\ to_u32("riscv", reg) <= to_u32("riscv", "FPR_END")

is_floating_point(arch, reg) ==
    IF arch = "arm" THEN ARMRegister_is_floating_point(reg)
    ELSE RVRegister_is_floating_point(reg)

\* how a read_reg of the core can end: every core returns Ok or Err, and
\* GDBCore::read_reg also panics, on a reply it cannot slice
ReadRegResults(core) ==
    IF core = "gdb"
    THEN {ReadRegDecode(GdbFinish(reply, <<>>, TRUE, TRUE)).res : reply \in RegReplies}
    ELSE {"ok", "err"}

\* the registers the loop of the command reads: floating-point ones only
\* with --fp
Listed(arch, fp) ==
    {reg \in get_all_registers(arch) : ~(is_floating_point(arch, reg) /\ ~fp)}

CmdOut(res, regs, calls) == [res |-> res, regs |-> regs, calls |-> calls]

\* the registers command from core.op_start() on: read_reg(reg) ends as
\* in.outcome[reg] says; regs is the set of registers it inserted, calls the
\* Core methods it called
registers(in) ==
    IF ~in.op_start_ok THEN CmdOut("err", {}, <<"op_start">>)
    ELSE IF \E reg \in Listed(in.arch, in.fp) : in.outcome[reg] = "panic"
    THEN CmdOut("panic", {}, <<"op_start", "read_reg">>)
    ELSE CmdOut(IF in.op_done_ok THEN "ok" ELSE "err",
                {reg \in Listed(in.arch, in.fp) : in.outcome[reg] = "ok"},
                <<"op_start", "read_reg", "op_done">>)

\* RVArch::read_saved_task_regs on a saved-state structure that has the
\* members `present` (readreg fails on any other name)
RVArch_read_saved_task_regs(present) ==
    CmdOut("ok", {reg \in get_all_registers("riscv") : reg \in present}, <<>>)

----------------------------------------------------------------------------
(* ARM presyscall_pushes: what the instructions before a system call left *)
(* on the stack                                                            *)

\* a disassembled instruction: its id, the registers among its operands,
\* and the regs_read and regs_write lists of its detail, all as the
\* disassembler's constants
Insn(id, operands, regs_read, regs_write) ==
    [id |-> id, operands |-> operands, regs_read |-> regs_read,
     regs_write |-> regs_write]

\* slice::first
First(ids) == IF Len(ids) = 0 THEN NoRegister ELSE ids[1]

\* Option::map(|id| Register::Arm(id.into()))
IntoArm(id) == IF id = NoRegister THEN NoRegister ELSE from_regid("arm", id)

SourceTarget(res, source, target) == [res |-> res, source |-> source, target |-> target]

\* instr_source_target: both ids are taken from source_ids
instr_source_target(instr) ==
    IF Len(instr.regs_read) > 1 THEN SourceTarget("err", NoRegister, NoRegister)
    ELSE IF Len(instr.regs_write) > 1 THEN SourceTarget("err", NoRegister, NoRegister)
    ELSE IF IntoArm(First(instr.regs_read)) = "panic"
    THEN SourceTarget("panic", NoRegister, NoRegister)
    ELSE SourceTarget("ok", IntoArm(First(instr.regs_read)),
                      IF Len(instr.regs_write) = 0 THEN NoRegister
                      ELSE IntoArm(First(instr.regs_read)))

\* ARMArch::instr_operands
instr_operands(instr) == [i \in 1..Len(instr.operands) |-> from_regid("arm", instr.operands[i])]

Reverse(seq) == [i \in 1..Len(seq) |-> seq[Len(seq) + 1 - i]]

\* a PUSH arm that takes the operands first to last
Pushed_InOrder(map, ops) ==
    [i \in 1..Len(ops) |-> IF ops[i] \in DOMAIN map THEN map[ops[i]] ELSE ops[i]]

\* the PUSH arm: the operands, last first, each replaced by what the map
\* holds for it
Pushed(map, ops) ==
    [i \in 1..Len(ops) |->
        IF Reverse(ops)[i] \in DOMAIN map THEN map[Reverse(ops)[i]] ELSE Reverse(ops)[i]]

\* Vec::pop, n times
Popped(rval, n) == SubSeq(rval, 1, IF Len(rval) > n THEN Len(rval) - n ELSE 0)

Pushes(res, map, rval) == [res |-> res, map |-> map, rval |-> rval]

\* the MOV arm, given what instr_source_target returned
MovArm(st, r) ==
    IF r.res # "ok" THEN Pushes(r.res, st.map, st.rval)
    ELSE IF r.source # NoRegister /\ r.target # NoRegister
    THEN Pushes("ok", RegsInsert(st.map, r.target, r.source), st.rval)
    ELSE st

\* one turn of the loop of presyscall_pushes
PushesStep(st, instr) ==
    IF instr.id = "ARM_INS_MOV" THEN MovArm(st, instr_source_target(instr))
    ELSE IF instr.id \in {"ARM_INS_PUSH", "ARM_INS_POP"}
            /\ \E i \in 1..Len(instr.operands) : instr_operands(instr)[i] = "panic"
    THEN Pushes("panic", st.map, st.rval)
    ELSE IF instr.id = "ARM_INS_PUSH"
    THEN Pushes("ok", st.map, st.rval \o Pushed(st.map, instr_operands(instr)))
    ELSE IF instr.id = "ARM_INS_POP"
    THEN Pushes("ok", st.map, Popped(st.rval, Len(instr.operands)))
    ELSE st

RECURSIVE PushesLoop(_, _, _)
PushesLoop(st, instrs, i) ==
    IF i > Len(instrs) \/ st.res # "ok" THEN st
    ELSE PushesLoop(PushesStep(st, instrs[i]), instrs, i + 1)

PushesOut(st) == [res |-> st.res, regs |-> IF st.res = "ok" THEN Reverse(st.rval) ELSE <<>>]

\* ARMArch::presyscall_pushes
presyscall_pushes(instrs) == PushesOut(PushesLoop(Pushes("ok", <<>>, <<>>), instrs, 1))

----------------------------------------------------------------------------
(* ARM instr_branch_target: where an instruction transfers control *)

\* the operands of an instruction: an immediate, a register, anything else
ImmOp(a) == [type |-> "Imm", imm |-> a, reg |-> "none"]
RegOp(id) == [type |-> "Reg", imm |-> 0, reg |-> id]
MemOp == [type |-> "Mem", imm |-> 0, reg |-> "none"]

\* `a as u32` of an i32
AsU32(a) ==
    IF a >= 0 THEN FromNat(a)
    ELSE W(Radix - 1 - ((-a - 1) \div Radix), Radix - 1 - ((-a - 1) % Radix))

\* Option<HubrisTarget>; "panic" is the panic on a missing operand
Target(kind, addr) == [kind |-> kind, addr |-> addr]

\* the loop over detail.groups(): what it leaves in brel
Brel(instr) ==
    IF "CS_GRP_BRANCH_RELATIVE" \notin instr.groups THEN Target("None", Zero32)
    ELSE IF Len(instr.operands) = 0 THEN Target("panic", Zero32)
    ELSE IF instr.operands[Len(instr.operands)].type = "Imm"
    THEN Target("Some", AsU32(instr.operands[Len(instr.operands)].imm))
    ELSE Target("None", Zero32)

\* one of the operands is the register
HasRegOperand(instr, id) ==
    \E i \in 1..Len(instr.operands) :
        instr.operands[i].type = "Reg" /\ instr.operands[i].reg = id

\* a classification that looks at the call group before the branch target
instr_branch_target_CallFirst(instr) ==
    IF Brel(instr).kind = "panic" THEN Target("panic", Zero32)
    ELSE IF "CS_GRP_CALL" \in instr.groups THEN Target("IndirectCall", Zero32)
    ELSE IF Brel(instr).kind = "Some" THEN Target("Direct", Brel(instr).addr)
    ELSE IF "CS_GRP_JUMP" \in instr.groups
    THEN IF HasRegOperand(instr, "ARM_REG_LR") THEN Target("Return", Zero32)
         ELSE Target("Indirect", Zero32)
    ELSE IF instr.id = "ARM_INS_POP" /\ HasRegOperand(instr, "ARM_REG_PC")
    THEN Target("Return", Zero32)
    ELSE Target("None", Zero32)

\* ARMArch::instr_branch_target
instr_branch_target(instr) ==
    IF Brel(instr).kind = "panic" THEN Target("panic", Zero32)
    ELSE IF Brel(instr).kind = "Some"
    THEN IF "CS_GRP_CALL" \in instr.groups THEN Target("Call", Brel(instr).addr)
         ELSE Target("Direct", Brel(instr).addr)
    ELSE IF "CS_GRP_CALL" \in instr.groups THEN Target("IndirectCall", Zero32)
    ELSE IF "CS_GRP_JUMP" \in instr.groups
    THEN IF HasRegOperand(instr, "ARM_REG_LR") THEN Target("Return", Zero32)
         ELSE Target("Indirect", Zero32)
    ELSE IF instr.id = "ARM_INS_POP" /\ HasRegOperand(instr, "ARM_REG_PC")
    THEN Target("Return", Zero32)
    ELSE Target("None", Zero32)

----------------------------------------------------------------------------
(* Sessions *)

Backends == {"probe", "ocd", "dump", "unattached", "gdb", "regs", "arch", "wire"}

\* the caller takes the result of the call that returned; calls are
\* synchronous, so the next one starts only then
Return ==
    /\ last # Idle /\ ~aborted
    /\ last' = Idle
    /\ UNCHANGED <<backend, overflow_checks, aborted, target_halted, probe, ocd,
                   at_connect, chip, conv, dump, gdb, gdbserver, br>>

\* ProbeCore::new: halted = 0; unhalted_reads as the archive declares
\* ProbeCore::new as attach_to_chip calls it: can_flash is true where a
\* chip was named
ProbeNew(unhalted_reads, can_flash) ==
    [unhalted_reads |-> unhalted_reads, halted |-> Zero32, can_flash |-> can_flash]

\* the (session, can_flash) match of attach_to_chip
CanFlash(c) == c # "none"

\* OpenOCDCore::new: halted is what "$targ curstate" answers, and
\* was_halted is a copy of it
OcdNew(curstate) ==
    [halted |-> curstate = "halted", was_halted |-> curstate = "halted"]

\* a function of the register layer applied: fn names it; reg, id and regid
\* are its input (a register, a number, a disassembler constant), out_reg
\* and out_id its result
Conv(fn, arch, reg, id, regid, out_reg, out_id) ==
    [fn |-> fn, arch |-> arch, reg |-> reg, id |-> id, regid |-> regid,
     out_reg |-> out_reg, out_id |-> out_id]

NoId == -1
Input(arch, reg, id, regid) == Conv("input", arch, reg, id, regid, "", NoId)
NoConv == Conv("none", "none", "", NoId, "", "", NoId)

NoProbe == ProbeNew(FALSE, FALSE)
NoOcd == OcdNew("running")
NoDump == DumpNew(W(0, 0), <<>>, <<>>)

\* the fields GDBCore::new starts from: halted and was_halted true, an empty
\* table
GdbFields(phase) ==
    [phase |-> phase, halted |-> TRUE, was_halted |-> TRUE, reg_table |-> {}]

Server(docs, chunk, greeting) == [docs |-> docs, chunk |-> chunk, greeting |-> greeting]

NoGdb == GdbFields("none")
NoServer == Server(Docs(<<>>, <<>>, <<>>, <<>>), 1, "none")

InitCommon ==
    /\ overflow_checks \in BOOLEAN
    /\ aborted = FALSE
    /\ last = Idle
    /\ br = NoBracket

InitProbe ==
    /\ backend = "probe"
    /\ InitCommon /\ conv = NoConv
    /\ chip \in {"none", "some"}
    /\ \E u \in BOOLEAN : probe = ProbeNew(u, CanFlash(chip))
    /\ target_halted \in BOOLEAN
    /\ ocd = NoOcd /\ at_connect = "running" /\ dump = NoDump
    /\ gdb = NoGdb /\ gdbserver = NoServer

\* a target that answers neither "halted" nor "running" is taken to run
InitOcd ==
    /\ backend = "ocd" /\ last = Idle
    /\ InitCommon /\ conv = NoConv
    /\ at_connect \in {"halted", "running", "unknown"}
    /\ ocd = OcdNew(at_connect)
    /\ target_halted = (at_connect = "halted")
    /\ probe = NoProbe /\ chip = "none" /\ dump = NoDump
    /\ gdb = NoGdb /\ gdbserver = NoServer

\* DumpCore::new on a dump file, or UnattachedCore::new
InitStatic ==
    /\ backend \in {"dump", "unattached"}
    /\ InitCommon /\ conv = NoConv
    /\ IF backend = "dump"
       THEN \E len \in FileLens, phdrs \in PhdrLists, regs \in RegisterMaps :
                dump = DumpNew(len, phdrs, regs)
       ELSE dump = NoDump
    /\ target_halted = FALSE
    /\ probe = NoProbe /\ chip = "none" /\ ocd = NoOcd /\ at_connect = "running"
    /\ gdb = NoGdb /\ gdbserver = NoServer

\* a client about to call GDBCore::new on a server; the server halts the
\* target when the connection is made
InitGdb ==
    /\ backend = "gdb"
    /\ InitCommon /\ conv = NoConv
    /\ gdb = GdbFields("connecting")
    /\ \E docs \in DocStores, chunk \in ChunkSizes, greeting \in {"stop", "none", "other"} :
        gdbserver = Server(docs, chunk, greeting)
    /\ target_halted = TRUE
    /\ probe = NoProbe /\ chip = "none" /\ ocd = NoOcd /\ at_connect = "running" /\ dump = NoDump

\* the numbers the id converters are applied to
MaxId == 8200
Ids == 0..MaxId

\* the constants the disassembler reports for register operands
ArmRegIds ==
    {"ARM_REG_R0", "ARM_REG_R1", "ARM_REG_R2", "ARM_REG_R3", "ARM_REG_R4",
     "ARM_REG_R5", "ARM_REG_R6", "ARM_REG_R7", "ARM_REG_R8", "ARM_REG_R9",
     "ARM_REG_R10", "ARM_REG_R11", "ARM_REG_R12", "ARM_REG_SP", "ARM_REG_LR",
     "ARM_REG_PC", "ARM_REG_CPSR", "ARM_REG_S0"}

RiscVRegIds ==
    {"RISCV_REG_ZERO", "RISCV_REG_RA", "RISCV_REG_SP", "RISCV_REG_GP",
     "RISCV_REG_TP", "RISCV_REG_T0", "RISCV_REG_T1", "RISCV_REG_T2",
     "RISCV_REG_S0", "RISCV_REG_S1", "RISCV_REG_A0", "RISCV_REG_A1",
     "RISCV_REG_A2", "RISCV_REG_A3", "RISCV_REG_A4", "RISCV_REG_A5",
     "RISCV_REG_A6", "RISCV_REG_A7", "RISCV_REG_S2", "RISCV_REG_S3",
     "RISCV_REG_S4", "RISCV_REG_S5", "RISCV_REG_S6", "RISCV_REG_S7",
     "RISCV_REG_S8", "RISCV_REG_S9", "RISCV_REG_S10", "RISCV_REG_S11",
     "RISCV_REG_T3", "RISCV_REG_T4", "RISCV_REG_T5", "RISCV_REG_T6",
     "RISCV_REG_F0_32"}

RegIds(arch) == IF arch = "arm" THEN ArmRegIds ELSE RiscVRegIds

\* a register, a number or a disassembler constant of one architecture,
\* about to be converted
InitRegs ==
    /\ backend = "regs"
    /\ InitCommon
    /\ \E arch \in {"arm", "riscv"} :
        \/ \E reg \in get_all_registers(arch) : conv = Input(arch, reg, NoId, "")
        \/ \E id \in Ids : conv = Input(arch, "", id, "")
        \/ \E regid \in RegIds(arch) : conv = Input(arch, "", NoId, regid)
    /\ target_halted = FALSE
    /\ probe = NoProbe /\ chip = "none" /\ ocd = NoOcd /\ at_connect = "running"
    /\ dump = NoDump /\ gdb = NoGdb /\ gdbserver = NoServer

ConvDo(c) ==
    /\ conv' = c
    /\ UNCHANGED <<backend, overflow_checks, aborted, target_halted, probe, chip,
                   ocd, at_connect, dump, gdb, gdbserver, last, br>>

\* the native id of a register
RToU32 ==
    /\ backend = "regs" /\ conv.fn = "input" /\ conv.reg # ""
    /\ ConvDo([conv EXCEPT !.fn = "to_u32", !.out_id = to_u32(conv.arch, conv.reg)])

\* register_from_id of a number, or of the native id just taken
RRegisterFromId ==
    /\ backend = "regs"
    /\ \/ conv.fn = "input" /\ conv.id # NoId
          /\ ConvDo([conv EXCEPT !.fn = "register_from_id",
                                 !.out_reg = register_from_id(conv.arch, conv.id)])
       \/ conv.fn = "to_u32"
          /\ ConvDo([conv EXCEPT !.fn = "register_from_id", !.id = conv.out_id,
                                 !.out_reg = register_from_id(conv.arch, conv.out_id)])

RToGdbId ==
    /\ backend = "regs" /\ conv.fn = "input" /\ conv.reg # ""
    /\ ConvDo([conv EXCEPT !.fn = "to_gdb_id", !.out_id = to_gdb_id(conv.arch, conv.reg)])

RRegisterFromDwarfId ==
    /\ backend = "regs" /\ conv.fn = "input" /\ conv.id # NoId
    /\ ConvDo([conv EXCEPT !.fn = "register_from_dwarf_id",
                           !.out_reg = register_from_dwarf_id(conv.arch, conv.id)])

\* the register of a system call's argument; the argument number is a u8
RGetSyscallRegister ==
    /\ backend = "regs" /\ conv.fn = "input" /\ conv.id # NoId /\ conv.id <= 255
    /\ ConvDo([conv EXCEPT !.fn = "get_syscall_register",
                           !.out_reg = get_syscall_register(conv.arch, conv.id)])

\* the conversion instr_operands applies to a register operand
RFromRegId ==
    /\ backend = "regs" /\ conv.fn = "input" /\ conv.regid # ""
    /\ ConvDo([conv EXCEPT !.fn = "from_regid",
                           !.out_reg = from_regid(conv.arch, conv.regid)])

\* an architecture function applied: fn names it, in is its input, out its
\* result
Applied(fn, in, out) == [fn |-> fn, in |-> in, out |-> out]
NoOut == SavedOut("none", <<>>)

\* values of the saved stack pointer: in RAM, and within a frame of the top
\* of the address space
Psps ==
    {W(8192, 0), W(8192, 8188), W(65535, 65428), W(65535, 65432),
     W(65535, 65500), W(65535, 65504)}

\* the four bytes of the saved status word as they lie on the stack
PsrBytes ==
    {<<0, 0, 0, 0>>, <<0, 2, 0, 0>>, <<2, 0, 0, 0>>, <<0, 0, 2, 0>>,
     <<255, 253, 255, 255>>, <<255, 255, 255, 255>>}

\* the 32 bytes at psp: seven words of other registers, then the status word
StackWith(psr) == <<1, 0, 0, 0, 2, 0, 0, 0, 3, 0, 0, 0, 4, 0, 0, 0, 5, 2, 0, 0,
                    6, 0, 2, 0, 7, 2, 0, 8>> \o psr

\* r4 .. r11 in the saved-state structure
SavedRegs == [r \in 4..11 |-> W(0, 512 + r)]

Targets == {"thumbv6m-none-eabi", "thumbv7em-none-eabihf"}

FrameInput(target, psp, psr, read, members) ==
    [target |-> target, psp |-> psp, stack |-> StackWith(psr), saved |-> SavedRegs,
     read |-> read, members |-> members]

\* the registers whose reads are made to fail
SampleRegs(arch) ==
    IF arch = "arm" THEN {"R0", "SP", "PSR", "S0"}
    ELSE {"ZERO", "PC", "MSTATUS", "FPR_START"}

Outcome(arch, fails, panics) ==
    [reg \in get_all_registers(arch) |->
        IF reg \in panics THEN "panic" ELSE IF reg \in fails THEN "err" ELSE "ok"]

ListingInput(core, arch, fp, fails, panics, op_start_ok, op_done_ok) ==
    [core |-> core, arch |-> arch, fp |-> fp, fails |-> fails, panics |-> panics,
     outcome |-> Outcome(arch, fails, panics), op_start_ok |-> op_start_ok,
     op_done_ok |-> op_done_ok]

\* a registers command about to run on a core where the reads of some
\* registers fail
InitListing ==
    \E core \in {"dump", "ocd", "gdb"}, arch \in {"arm", "riscv"}, fp \in BOOLEAN,
       a \in BOOLEAN, b \in BOOLEAN :
        \E fails \in SUBSET SampleRegs(arch), panics \in SUBSET SampleRegs(arch) :
            /\ Cardinality(panics) <= 1
            /\ panics # {} => "panic" \in ReadRegResults(core)
            /\ conv = Applied("listing",
                              ListingInput(core, arch, fp, fails, panics, a, b), NoOut)

\* a RISC-V saved-state structure that lacks some registers
InitSaved ==
    \E missing \in SUBSET SampleRegs("riscv") :
        conv = Applied("saved", [present |-> get_all_registers("riscv") \ missing,
                                 missing |-> missing], NoOut)

\* the instructions of the windows: mov r0, r8 and mov r1, r9, each as a
\* disassembler that lists the operands of a move in regs_read and
\* regs_write reports it and as one that lists only implicit registers
\* does; push {r0, r1}; push {r4, lr}; pop {r0}; and one that is none of
\* these
Insns ==
    {Insn("ARM_INS_MOV", <<"ARM_REG_R0", "ARM_REG_R8">>, <<"ARM_REG_R8">>, <<"ARM_REG_R0">>),
     Insn("ARM_INS_MOV", <<"ARM_REG_R1", "ARM_REG_R9">>, <<"ARM_REG_R9">>, <<"ARM_REG_R1">>),
     Insn("ARM_INS_MOV", <<"ARM_REG_R0", "ARM_REG_R8">>, <<>>, <<>>),
     Insn("ARM_INS_PUSH", <<"ARM_REG_R0", "ARM_REG_R1">>, <<"ARM_REG_SP">>, <<"ARM_REG_SP">>),
     Insn("ARM_INS_PUSH", <<"ARM_REG_R4", "ARM_REG_LR">>, <<"ARM_REG_SP">>, <<"ARM_REG_SP">>),
     Insn("ARM_INS_POP", <<"ARM_REG_R0">>, <<"ARM_REG_SP">>, <<"ARM_REG_SP">>),
     Insn("ARM_INS_ADD", <<"ARM_REG_R0", "ARM_REG_R1">>, <<>>, <<>>)}

MaxWindow == 3

Windows ==
    UNION {[1..n -> Insns] : n \in 0..MaxWindow}

\* the instructions before a system call, about to be examined
InitWindow ==
    \E instrs \in Windows : conv = Applied("window", [instrs |-> instrs], NoOut)

\* the operands instructions are given: a target below and one above 2^31,
\* the link register, the program counter, another register, a memory
\* operand
Operands ==
    {ImmOp(256), ImmOp(-4), RegOp("ARM_REG_LR"), RegOp("ARM_REG_PC"),
     RegOp("ARM_REG_R0"), MemOp}

MaxOperands == 2

Groups == {"CS_GRP_BRANCH_RELATIVE", "CS_GRP_JUMP", "CS_GRP_CALL", "ARM_GRP_THUMB"}

InsnIds == {"ARM_INS_POP", "ARM_INS_B", "ARM_INS_BL", "ARM_INS_BX"}

\* an instruction about to be classified; the disassembler gives every
\* relative branch its target as an operand
InitBranch ==
    \E id \in InsnIds, groups \in SUBSET Groups,
       operands \in UNION {[1..n -> Operands] : n \in 0..MaxOperands} :
        /\ "CS_GRP_BRANCH_RELATIVE" \in groups => Len(operands) > 0
        /\ conv = Applied("insn", [id |-> id, groups |-> groups, operands |-> operands],
                          NoOut)

\* a task's saved state about to be recovered
InitArch ==
    /\ backend = "arch"
    /\ InitCommon
    /\ \/ \E target \in Targets, psp \in Psps, psr \in PsrBytes,
             read \in {"ok", "err"}, members \in BOOLEAN :
           conv = Applied("frame", FrameInput(target, psp, psr, read, members), NoOut)
       \/ InitListing
       \/ InitSaved
       \/ InitWindow
       \/ InitBranch
    /\ target_halted = FALSE
    /\ probe = NoProbe /\ chip = "none" /\ ocd = NoOcd /\ at_connect = "running"
    /\ dump = NoDump /\ gdb = NoGdb /\ gdbserver = NoServer

ARegisters ==
    /\ backend = "arch" /\ conv.fn = "listing"
    /\ ConvDo(Applied("registers", conv.in, registers(conv.in)))

ARvReadSavedTaskRegs ==
    /\ backend = "arch" /\ conv.fn = "saved"
    /\ ConvDo(Applied("rv_read_saved_task_regs", conv.in,
                      RVArch_read_saved_task_regs(conv.in.present)))

AInstrBranchTarget ==
    /\ backend = "arch" /\ conv.fn = "insn"
    /\ ConvDo(Applied("instr_branch_target", conv.in, instr_branch_target(conv.in)))

APresyscallPushes ==
    /\ backend = "arch" /\ conv.fn = "window"
    /\ ConvDo(Applied("presyscall_pushes", conv.in, presyscall_pushes(conv.in.instrs)))

AReadSavedTaskRegs ==
    /\ backend = "arch" /\ conv.fn = "frame"
    /\ ConvDo(Applied("read_saved_task_regs", conv.in,
                      WithReads(ARMArch_read_saved_task_regs(conv.in, overflow_checks),
                                SavedReads(conv.in))))

\* how many reads of one call are followed
MaxReads == 3

\* what one read of the OpenOCD stream can give: nothing (the peer closed),
\* "0" and the delimiter, "0", "Error: ", the delimiter, a byte 0xff
OcdChunks ==
    {<<>>, <<48, 26>>, <<48>>, ErrorText, <<26>>, <<255>>, ReadErr}

\* what one read of the GDB stream can give: nothing, "+", "$OK#9a",
\* "$OK#00", "$O", "K#9a", "#", "OK#9a", "#$", a byte 0xff
GdbChunks ==
    {<<>>, <<43>>, <<36, 79, 75, 35, 57, 97>>, <<36, 79, 75, 35, 48, 48>>,
     <<36, 79>>, <<75, 35, 57, 97>>, <<35>>, <<79, 75, 35, 57, 97>>,
     <<35, 36>>, <<255>>, ReadErr}

\* a closed connection stays closed, and a failed read ends the call
Broken(rd) == rd = <<>> \/ rd = ReadErr

\* a command has been written and its response is awaited
InitWire ==
    /\ backend = "wire"
    /\ InitCommon
    /\ \E fn \in {"sendcmd", "recvdata"} :
        conv = Loop(fn, "reading", <<>>, <<>>, 0, FALSE)
    /\ target_halted = FALSE
    /\ probe = NoProbe /\ chip = "none" /\ ocd = NoOcd /\ at_connect = "running"
    /\ dump = NoDump /\ gdb = NoGdb /\ gdbserver = NoServer

WSendcmdRead ==
    /\ backend = "wire" /\ conv.fn = "sendcmd" /\ conv.res = "reading"
    /\ conv.reads < MaxReads
    /\ \E rd \in OcdChunks :
        /\ conv.broken => rd = <<>>
        /\ ConvDo([SendcmdRead(conv, rd) EXCEPT !.broken = Broken(rd)])

WRecvdataRead ==
    /\ backend = "wire" /\ conv.fn = "recvdata" /\ conv.res = "reading"
    /\ conv.reads < MaxReads
    /\ \E rd \in GdbChunks :
        /\ conv.broken => rd = <<>>
        /\ ConvDo([RecvdataRead(conv, rd, overflow_checks) EXCEPT !.broken = Broken(rd)])

Init == InitProbe \/ InitOcd \/ InitStatic \/ InitGdb \/ InitRegs \/ InitArch \/ InitWire

NextProbe ==
    \/ PHalt \/ PRun \/ POpStart \/ POpDone \/ PReadWord32 \/ PRead8 \/ PLoad
    \/ Return

NextOcd ==
    \/ OHalt \/ ORun \/ OOpStart \/ OOpDone
    \/ OReadWord32 \/ OWriteWord32 \/ OReadReg \/ ORead8
    \/ Return

NextStatic ==
    \/ DReadWord32 \/ DRead8 \/ DReadReg \/ DOther \/ UCall
    \/ Return

NextGdb ==
    \/ GNew \/ GRead8 \/ GReadReg \/ GHalt \/ GRun \/ GOther
    \/ Return

NextRegs ==
    \/ RToU32 \/ RRegisterFromId \/ RToGdbId \/ RRegisterFromDwarfId \/ RFromRegId
    \/ RGetSyscallRegister

NextArch ==
    \/ AReadSavedTaskRegs \/ ARegisters \/ ARvReadSavedTaskRegs \/ APresyscallPushes
    \/ AInstrBranchTarget

NextWire == WSendcmdRead \/ WRecvdataRead

Next ==
    \/ NextProbe \/ NextOcd \/ NextStatic \/ NextGdb \/ NextRegs \/ NextArch
    \/ NextWire

Spec == Init /\ [][Next]_vars
SpecProbe == InitProbe /\ [][NextProbe]_vars
SpecOcd == InitOcd /\ [][NextOcd]_vars
SpecStatic == InitStatic /\ [][NextStatic]_vars
SpecGdb == InitGdb /\ [][NextGdb]_vars
SpecRegs == InitRegs /\ [][NextRegs]_vars
SpecArch == InitArch /\ [][NextArch]_vars
SpecWire == InitWire /\ [][NextWire]_vars

----------------------------------------------------------------------------
(* Properties *)

Sent(cmds, c) == \E i \in 1..Len(cmds) : cmds[i] = c

ReadOps == {"read_word_32", "read_8"}
AccessOps == {"read_word_32", "read_8", "read_reg", "write_word_32"}

\* C1: on a probe session that halts for its reads, op_start issues the
\* physical halt exactly when it takes the nesting counter from 0 to 1 and
\* op_done issues the physical run exactly when it takes it from 1 to 0; a
\* well-nested bracket opened on a running target with the counter at 0
\* has, when it closes, issued one halt and one run, and leaves the target
\* running and the counter at 0.
C1_NestedBracketHaltsOnce ==
    (backend = "probe" /\ ~probe.unhalted_reads) =>
        /\ (last.op = "op_start" /\ last.res = "ok") =>
                last.phys = IF last.pre = Zero32 THEN <<"halt">> ELSE <<>>
        /\ (last.op = "op_done" /\ last.res = "ok") =>
                last.phys = IF probe.halted = Zero32 THEN <<"run">> ELSE <<>>
        /\ (br.closed /\ br.pre_zero /\ ~br.pre_halted) =>
                /\ br.halts = 1 /\ br.runs = 1
                /\ ~target_halted /\ probe.halted = Zero32

\* two op_start then two op_done on a running target have just returned
C1_Witness ==
    /\ backend = "probe" /\ ~probe.unhalted_reads
    /\ last.op = "op_done" /\ last.res = "ok"
    /\ br.closed /\ br.pre_zero /\ ~br.pre_halted /\ br.max = 2
    /\ br.halts = 1 /\ br.runs = 1 /\ ~target_halted

\* C2: on a probe session that halts for its reads, a bracket opened on a
\* target that was already halted issues no physical run and leaves the
\* target halted when its outermost op_done returns.
C2_HaltedTargetStaysHalted ==
    (backend = "probe" /\ ~probe.unhalted_reads /\ br.closed /\ br.pre_halted) =>
        (target_halted /\ br.runs = 0)

\* C3: on an OpenOCD session connected to a running target, inside an open
\* op_start bracket the target stays halted, and a read or word write made
\* inside the bracket sends neither "halt" nor "resume".
C3_OcdBracketsNest ==
    (backend = "ocd" /\ at_connect = "running" /\ br.depth >= 1) =>
        /\ target_halted
        /\ last.op \in AccessOps =>
                (~Sent(last.phys, "halt") /\ ~Sent(last.phys, "resume"))

\* C4: an OpenOCD session keeps was_halted as set at connect, and after any
\* read_word_32, read_8, read_reg or write_word_32 has returned, Ok or not,
\* the target is halted iff it was halted at connect.
C4_OcdRunStatePreserved ==
    backend = "ocd" =>
        /\ ocd.was_halted = (at_connect = "halted")
        /\ last.op \in AccessOps => (target_halted = (at_connect = "halted"))

\* [addr, addr + len) lies inside an always-readable window
InsideWindow(addr, len) ==
    \E w \in unhalted_read_regions :
        /\ Le(w.base, addr)
        /\ Le(Add(addr, FromNat(len)), Add(w.base, w.size))

\* C5: a probe read whose bytes all lie inside an always-readable window
\* issues no physical halt and no physical run, whatever unhalted_reads and
\* the nesting counter are.
C5_WindowReadsNeverHalt ==
    (backend = "probe" /\ last.op \in ReadOps
        /\ InsideWindow(last.arg.addr, last.arg.len)) =>
        (Halts(last.phys) = 0 /\ Runs(last.phys) = 0)

\* C6: on the probe, OpenOCD, GDB and dump backends a read_8 of more than
\* CORE_MAX_READSIZE bytes fails with a size error, with no command sent and
\* no byte copied to the buffer.
C6_OversizedReadFails ==
    (backend \in {"probe", "ocd", "gdb", "dump"} /\ last.op = "read_8"
        /\ last.arg.len > CORE_MAX_READSIZE) =>
        (last.res = "size" /\ last.phys = <<>> /\ DOMAIN last.data = {})

MutatingOps == {"write_reg", "write_word_32", "write_8", "step", "load"}

\* C7: on a dump and on an unattached probe, write_reg, write_word_32,
\* write_8, step and load (and reset on a dump) return an error every time
\* and leave the session's contents, regions and registers as they were.
C7_ReadOnlyBackendsRefuse ==
    [][(/\ backend \in {"dump", "unattached"}
        /\ last'.op \in MutatingOps \cup (IF backend = "dump" THEN {"reset"} ELSE {}))
        => (last'.res = "err" /\ dump' = dump)]_vars

\* a write has been refused on a dump that holds segments and registers
C7_Witness ==
    /\ backend = "dump" /\ last.op = "write_word_32" /\ last.res = "err"
    /\ dump.regions # {} /\ DOMAIN dump.registers # {}

\* the conditions C8 names, in exact arithmetic: the segment with the highest
\* base <= addr exists, the access ends inside it, and inside the file
C8_Fits(d, addr, len) ==
    /\ HasRangeLE(d.regions, addr)
    /\ LET r == RangeLE(d.regions, addr) IN
        /\ Le(Add(Sub(addr, r.base), FromNat(len)), r.size)
        /\ Le(Add(Add(r.offset, Sub(addr, r.base)), FromNat(len)), d.len)

C8_Expected(d, addr, len) ==
    LET r == RangeLE(d.regions, addr) IN
    [i \in 0..(len - 1) |->
        ContentByte(ToNat(r.offset) + ToNat(Sub(addr, r.base)) + i)]

\* the segment with the highest base of all
LastSegment(d) == CHOOSE r \in d.regions : \A q \in d.regions : Le(q.base, r.base)

\* C8: a dump read_8 succeeds exactly when the segment with the highest
\* base <= addr exists, the access fits that segment and fits the file; the
\* buffer then holds the file's bytes from offset + (addr - base) on.  So a
\* read of a segment's first byte gives the byte at its file offset, and a
\* one-byte read just past the last segment fails.
C8_DumpRead8 ==
    (backend = "dump" /\ last.op = "read_8") =>
        /\ (last.res = "ok") <=> C8_Fits(dump, last.arg.addr, last.arg.len)
        /\ last.res = "ok" =>
            /\ DOMAIN last.data = 0..(last.arg.len - 1)
            /\ last.data = C8_Expected(dump, last.arg.addr, last.arg.len)
        /\ (last.res = "ok" /\ last.arg.len = 1) =>
            \A r \in dump.regions :
                r.base = last.arg.addr => last.data[0] = ContentByte(ToNat(r.offset))
        /\ (dump.regions # {} /\ last.arg.len = 1
                /\ last.arg.addr = Add(LastSegment(dump).base, LastSegment(dump).size))
            => last.res # "ok"

\* a read that starts inside a segment, away from its base, has succeeded
C8_Witness ==
    /\ backend = "dump" /\ last.op = "read_8" /\ last.res = "ok"
    /\ last.arg.addr = W(8192, 4) /\ last.arg.len = 4
    /\ last.data[0] = ContentByte(20)

\* the access fits the segment found for addr, in exact arithmetic
C9_FitsSegment(d, addr, len) ==
    /\ HasRangeLE(d.regions, addr)
    /\ LET r == RangeLE(d.regions, addr) IN
        Le(Add(Sub(addr, r.base), FromNat(len)), r.size)

\* C9: a dump read that fails returns an error of one of two kinds:
\* unmapped ("invalid" or "range" here) exactly when the access does not
\* fit a segment, truncated exactly when it fits the segment and not the
\* file.
C9_DumpErrorKinds ==
    (backend = "dump" /\ last.op \in ReadOps /\ last.res # "ok") =>
        /\ last.res = "err"
        /\ last.kind \in {"invalid", "range", "truncated"}
        /\ last.kind \in {"invalid", "range"}
            <=> ~C9_FitsSegment(dump, last.arg.addr, last.arg.len)
        /\ last.kind = "truncated"
            <=> (/\ C9_FitsSegment(dump, last.arg.addr, last.arg.len)
                 /\ ~C8_Fits(dump, last.arg.addr, last.arg.len))

\* the positions of the index tokens of a reply
IndexPositions(toks) == {k \in 1..Len(toks) : k % 2 = 1}

\* C10: an OpenOCD read_8 that returns Ok saw every index below len exactly
\* once and no other index, and every byte data[i] is the value that follows
\* index i in the reply.
C10_ArrayDumpAccepted ==
    (backend = "ocd" /\ last.op = "read_8" /\ last.res = "ok") =>
        LET toks == last.reply.toks
            len == last.arg.len
        IN  /\ \A k \in IndexPositions(toks) : toks[k].fmt = "dec" /\ toks[k].val < len
            /\ \A i \in 0..(len - 1) :
                Cardinality({k \in IndexPositions(toks) : toks[k].val = i}) = 1
            /\ \A i \in 0..(len - 1) :
                \E k \in IndexPositions(toks) :
                    /\ toks[k].val = i
                    /\ k + 1 <= Len(toks)
                    /\ last.data[i] = toks[k + 1].val

\* a complete answer to a read of len bytes: (index, value) pairs, every
\* index below len once, every value at most 255 in decimal or 0x-hex
CompleteAnswer(toks, len) ==
    /\ Len(toks) = 2 * len
    /\ \A k \in IndexPositions(toks) : toks[k].fmt = "dec" /\ toks[k].val < len
    /\ \A i \in 0..(len - 1) : \E k \in IndexPositions(toks) : toks[k].val = i
    /\ \A k \in 1..Len(toks) :
        k % 2 = 0 => (toks[k].fmt \in {"dec", "hex"} /\ toks[k].val <= 255)

\* C11: an OpenOCD read_8 whose reply is a complete answer with values
\* written as 0x-prefixed hexadecimal succeeds with those values in the
\* buffer; "0 0x41 1 0x42" for a 2-byte read gives [0x41, 0x42].
C11_HexValuesAccepted ==
    (/\ backend = "ocd" /\ last.op = "read_8" /\ ~last.reply.novar
     /\ CompleteAnswer(last.reply.toks, last.arg.len)
     /\ \E k \in 1..Len(last.reply.toks) : last.reply.toks[k].fmt = "hex") =>
        /\ last.res = "ok"
        /\ \A k \in IndexPositions(last.reply.toks) :
            last.data[last.reply.toks[k].val] = last.reply.toks[k + 1].val

\* the events of the last call that are packets handed to prepcmd
TxEvents == {i \in 1..Len(last.phys) : last.phys[i].ev = "tx"}

\* '$' + payload + '#' + two lowercase hex digits of the byte sum mod 256
Framed(cmd) ==
    [start |-> 36, body |-> cmd,
     trailer |-> <<35>> \o LowerHex02(ByteSum(cmd, 1, Len(cmd))[2] % 256)]

\* C12: every command payload handed to prepcmd during a GDB call comes
\* out as '$' + payload + '#' + two lowercase hex digits of (sum of the
\* payload's bytes) mod 256, whatever the payload's length; "m0,4" gives
\* "$m0,4#fd".
C12_PacketFraming ==
    backend = "gdb" =>
        /\ \A i \in TxEvents : last.phys[i].pkt = Framed(last.phys[i].cmd)
        /\ (last.op = "read_8" /\ last.arg = [addr |-> Zero32, len |-> 4]
                /\ last.phys # <<>>) =>
                last.phys[1].pkt = [start |-> 36, body |-> Bytes(<<109, 48, 44, 52>>),
                                    trailer |-> <<35, 102, 100>>]

\* the calls that are one sendcmd and what follows from its answer
SendCmdOps == {"read_8", "read_reg"}

\* event i of the last call is answered by a '+' before anything else is
\* written or read
AckedNext(i) ==
    \E j \in (i + 1)..Len(last.phys) :
        /\ last.phys[j].ev = "txack"
        /\ \A k \in (i + 1)..(j - 1) : last.phys[k].ev \notin {"tx", "rx"}

\* C13: in a sendcmd that meets no transport fault, every reply packet
\* read from the server is acknowledged with '+' before sendcmd returns
\* and before another command is written.
C13_RepliesAcked ==
    (backend = "gdb" /\ last.op \in SendCmdOps /\ last.reply.fault = "none") =>
        \A i \in 1..Len(last.phys) : last.phys[i].ev = "rx" => AckedNext(i)

\* the last call was one sendcmd whose first reply was a stop reply, with
\* no transport fault
StopHandled ==
    /\ backend = "gdb" /\ last.op \in SendCmdOps /\ last.reply.fault = "none"
    /\ Len(last.phys) > 1
    /\ Contains(last.reply.r1, StopMarker)

\* what a read returns to its caller when sendcmd's answer is `data`
AnswerOf(op, len, data) ==
    IF op = "read_8" THEN Read8Decode(len, GdbFinish(data, <<>>, FALSE, FALSE))
    ELSE ReadRegDecode(GdbFinish(data, <<>>, FALSE, FALSE))

\* C14: a sendcmd that reads a stop reply in place of its answer records
\* halted = true, writes '+', writes the same command again and reads the
\* next packet, in that order, and what the caller gets is made of that
\* next packet, not of the stop reply.
C14_StopReplyRetransmits ==
    StopHandled =>
        /\ Len(last.phys) >= 7
        /\ last.phys[3] = Rx(last.reply.r1)
        /\ last.phys[4] = Mark("set_halted")
        /\ last.phys[5] = Mark("txack")
        /\ last.phys[6].ev = "tx" /\ last.phys[6] = last.phys[1]
        /\ last.phys[7] = Rx(last.reply.r2)
        /\ last.res = AnswerOf(last.op, last.arg.len, last.reply.r2).res
        /\ last.kind = AnswerOf(last.op, last.arg.len, last.reply.r2).kind
        /\ last.data = AnswerOf(last.op, last.arg.len, last.reply.r2).data

\* read_8 of 4 bytes at 0 met a stop reply and then the answer "41424344"
C14_Witness ==
    /\ StopHandled /\ last.op = "read_8" /\ last.arg.len = 4
    /\ last.reply.r2 = <<"4", "1", "4", "2", "4", "3", "4", "4">>
    /\ last.res = "ok" /\ last.data = <<65, 66, 67, 68>>

\* the last call wrote the command "c"
SentContinue == \E i \in TxEvents : last.phys[i].cmd = CmdContinue

\* C15: after a stop reply was handled inside sendcmd, "c" is sent exactly
\* when the session was running (halted flag false) when sendcmd was
\* called; a session that was halted sends no "c", and the target stays
\* halted with the halted flag true.
C15_ContinueOnlyIfRunning ==
    StopHandled =>
        IF last.pre = Flag(TRUE) THEN ~SentContinue /\ gdb.halted /\ target_halted
        ELSE SentContinue /\ ~gdb.halted

\* the offsets a chunked transfer of a document of n characters asks for
\* when the server sends c characters a chunk
ChunkOffsets(n, c) ==
    [k \in 1..(IF n = 0 THEN 1 ELSE (n + c - 1) \div c) |-> (k - 1) * c]

\* document f was fetched chunk by chunk, whole
FetchedWhole(f) ==
    /\ f.offsets = ChunkOffsets(Len(DocOf(gdbserver.docs, f.file)), gdbserver.chunk)
    /\ f.used = DocOf(gdbserver.docs, f.file)

\* C16: every feature document GDBCore::new fetches, target.xml and the
\* included ones alike, is requested chunk by chunk at the offset of the
\* characters already received until a chunk prefixed 'l', and the
\* document used is the concatenation of the chunks without their prefix.
C16_ChunkedFetch ==
    (backend = "gdb" /\ last.op = "new" /\ last.res = "ok") =>
        \A i \in 1..Len(last.data) : FetchedWhole(last.data[i])

FeatureFiles == {"target.xml", "a.xml", "b.xml", "zzz..."}

\* the documents the elements of `files` include
IncludedBy(files) ==
    {Element(DocOf(gdbserver.docs, f)[i]).href :
        <<f, i>> \in {<<f, i>> \in files \X (1..4) :
                        /\ i <= Len(DocOf(gdbserver.docs, f))
                        /\ Element(DocOf(gdbserver.docs, f)[i]).tag = "include"}}

\* the documents reachable from target.xml through includes at any depth
Reachable ==
    LET r1 == {"target.xml"} \cup IncludedBy({"target.xml"})
        r2 == r1 \cup IncludedBy(r1)
    IN  r2 \cup IncludedBy(r2)

\* the registers (name, regnum) the reachable documents declare
DeclaredRegs ==
    {[name |-> Element(DocOf(gdbserver.docs, fi[1])[fi[2]]).name,
      regnum |-> Element(DocOf(gdbserver.docs, fi[1])[fi[2]]).regnum] :
        fi \in {fi \in Reachable \X (1..4) :
                    /\ fi[2] <= Len(DocOf(gdbserver.docs, fi[1]))
                    /\ Element(DocOf(gdbserver.docs, fi[1])[fi[2]]).tag = "reg"
                    /\ \E k \in 1..Len(Element(DocOf(gdbserver.docs, fi[1])[fi[2]]).attrs) :
                        Element(DocOf(gdbserver.docs, fi[1])[fi[2]]).attrs[k] = "regnum"}}

\* C17: after GDBCore::new succeeded, the register table maps the name of
\* every reg element with a name and a regnum, of every document reachable
\* from target.xml through includes at any depth, to that regnum.
C17_TableHoldsAllRegs ==
    (backend = "gdb" /\ last.op = "new" /\ last.res = "ok") =>
        DeclaredRegs \subseteq gdb.reg_table

\* the last call was read_reg and its command could be written
ReadRegSent ==
    backend = "gdb" /\ last.op = "read_reg" /\ last.reply.fault # "write1"

\* the last call wrote the register-read command for protocol id `id` first
AskedFor(id) ==
    /\ last.phys # <<>>
    /\ last.phys[1].ev = "tx" /\ last.phys[1].cmd = CmdReadReg(id)

\* C18: read_reg of a general-purpose register or of the PC asks for the
\* architecture's fixed id whatever the table holds; read_reg of another
\* register whose lower-cased name is in the table asks for the id the
\* table gives.
C18_RegisterIdChoice ==
    ReadRegSent =>
        /\ (RegInfo(last.arg.reg).gp \/ RegInfo(last.arg.reg).pc) =>
                AskedFor(RegInfo(last.arg.reg).id)
        /\ (~RegInfo(last.arg.reg).gp /\ ~RegInfo(last.arg.reg).pc
                /\ TableHas(gdb.reg_table, RegInfo(last.arg.reg).name)) =>
                AskedFor(TableGet(gdb.reg_table, RegInfo(last.arg.reg).name))

\* the table maps "pc" to 99 and read_reg(PC) asked for id 15 and succeeded
C18_Witness ==
    /\ ReadRegSent /\ last.arg.reg = "PC" /\ last.res = "ok"
    /\ [name |-> "pc", regnum |-> 99] \in gdb.reg_table
    /\ AskedFor(15)

\* C19: read_reg of a register that is neither general-purpose nor the PC,
\* whose lower-cased name the table does not hold (the table may be
\* empty), returns an error and writes no command.
C19_AbsentRegisterFails ==
    (/\ backend = "gdb" /\ last.op = "read_reg"
     /\ ~RegInfo(last.arg.reg).gp /\ ~RegInfo(last.arg.reg).pc
     /\ ~TableHas(gdb.reg_table, RegInfo(last.arg.reg).name)) =>
        (last.res = "err" /\ last.kind = "absent" /\ last.phys = <<>>)

\* the packet sendcmd took for the answer during the last call
Answer ==
    IF Contains(last.reply.r1, StopMarker) THEN last.reply.r2 ELSE last.reply.r1

AllHex(text) == \A i \in 1..Len(text) : HexVal(text[i]) >= 0

\* the byte written as the two hex digits at position 2k - 1 of `text`
ByteAt(text, k) == 16 * HexVal(text[2 * k - 1]) + HexVal(text[2 * k])

\* the u32 whose little-endian bytes are bytes k .. k + 3 of `text`
LittleEndian32(text, k) ==
    W(ByteAt(text, k + 3) * 256 + ByteAt(text, k + 2),
      ByteAt(text, k + 1) * 256 + ByteAt(text, k))

\* C20: when sendcmd hands read_reg an answer, 8 hex digits are decoded as
\* a little-endian 32-bit value ("78563412" is 0x12345678), 16 hex digits
\* as a little-endian 64-bit value, and an answer of any other length makes
\* read_reg return an error: never a panic, never a value.
C20_RegisterReplyWidths ==
    (/\ backend = "gdb" /\ last.op = "read_reg" /\ last.reply.fault = "none"
     /\ last.kind # "absent") =>
        /\ (Len(Answer) = 8 /\ AllHex(Answer)) =>
                /\ last.res = "ok"
                /\ last.data = Value64(Zero32, LittleEndian32(Answer, 1))
        /\ (Len(Answer) = 16 /\ AllHex(Answer)) =>
                /\ last.res = "ok"
                /\ last.data = Value64(LittleEndian32(Answer, 5), LittleEndian32(Answer, 1))
        /\ Answer = <<"7", "8", "5", "6", "3", "4", "1", "2">> =>
                last.data = Value64(Zero32, W(4660, 22136))
        /\ Len(Answer) \notin {8, 16} => last.res = "err"

\* C21: a probe session has can_flash true exactly when attach_to_chip was
\* given a chip, all session long, and load on a session attached without
\* a chip returns an error before anything is erased or programmed.
C21_LoadNeedsChip ==
    backend = "probe" =>
        /\ probe.can_flash = (chip = "some")
        /\ (last.op = "load" /\ chip = "none") => (last.res = "err" /\ last.phys = <<>>)

\* load has just been refused on a session attached without a chip
C21_Witness ==
    /\ backend = "probe" /\ chip = "none" /\ ~probe.can_flash
    /\ last.op = "load" /\ last.res = "err" /\ last.phys = <<>>

----------------------------------------------------------------------------
(* Register id spaces *)

\* C22: for every register r that get_all_registers of an architecture
\* returns, register_from_id of the native id of r is r, and no other
\* register of that architecture has the native id of r.
C22_NativeIdRoundTrip ==
    backend = "regs" =>
        /\ (conv.fn = "register_from_id" /\ conv.reg # "") => conv.out_reg = conv.reg
        /\ conv.fn = "to_u32" =>
               \A other \in get_all_registers(conv.arch) \ {conv.reg} :
                   to_u32(conv.arch, other) # conv.out_id

\* the RISC-V PC, whose native id 0x7b1 lies among the CSRs, came back
C22_Witness ==
    /\ backend = "regs" /\ conv.fn = "register_from_id" /\ conv.arch = "riscv"
    /\ conv.reg = "PC" /\ conv.id = 1969 /\ conv.out_reg = "PC"

\* C23: within one architecture no two registers that get_all_registers
\* returns have the same GDB protocol id (to_gdb_id).
C23_GdbIdInjective ==
    (backend = "regs" /\ conv.fn = "to_gdb_id") =>
        \A other \in get_all_registers(conv.arch) \ {conv.reg} :
            to_gdb_id(conv.arch, other) # conv.out_id

Accepted(r) == r \notin {"Err", "panic"}

\* C24: RISC-V register_from_dwarf_id gives, for a DWARF number 0..63, the
\* register whose native id is the number plus 0x1000 and, for a number
\* 4096..8191, the CSR whose native id is the number minus 4096; and no
\* other DWARF number is accepted and gives the same register.
C24_DwarfIdMapping ==
    (/\ backend = "regs" /\ conv.fn = "register_from_dwarf_id"
     /\ conv.arch = "riscv" /\ Accepted(conv.out_reg)) =>
        /\ conv.id < 64 => to_u32("riscv", conv.out_reg) = conv.id + 4096
        /\ (conv.id >= 4096 /\ conv.id < 8192) =>
               /\ to_u32("riscv", conv.out_reg) = conv.id - 4096
               /\ RVRegister_is_special(conv.out_reg)
        /\ \A other \in Ids \ {conv.id} :
               RVArch_register_from_dwarf_id(other) # conv.out_reg

\* the disassembler's constant for each general-purpose register: ARM
\* R0-R12, SP, LR, PC and RISC-V x0-x31 by their ABI names
ArmNamed ==
    <<<<"ARM_REG_R0", "R0">>, <<"ARM_REG_R1", "R1">>, <<"ARM_REG_R2", "R2">>,
      <<"ARM_REG_R3", "R3">>, <<"ARM_REG_R4", "R4">>, <<"ARM_REG_R5", "R5">>,
      <<"ARM_REG_R6", "R6">>, <<"ARM_REG_R7", "R7">>, <<"ARM_REG_R8", "R8">>,
      <<"ARM_REG_R9", "R9">>, <<"ARM_REG_R10", "R10">>,
      <<"ARM_REG_R11", "R11">>, <<"ARM_REG_R12", "R12">>,
      <<"ARM_REG_SP", "SP">>, <<"ARM_REG_LR", "LR">>, <<"ARM_REG_PC", "PC">>>>

RiscVNamed ==
    <<<<"RISCV_REG_ZERO", "ZERO">>, <<"RISCV_REG_RA", "RA">>,
      <<"RISCV_REG_SP", "SP">>, <<"RISCV_REG_GP", "GP">>,
      <<"RISCV_REG_TP", "TP">>, <<"RISCV_REG_T0", "T0">>,
      <<"RISCV_REG_T1", "T1">>, <<"RISCV_REG_T2", "T2">>,
      <<"RISCV_REG_S0", "S0">>, <<"RISCV_REG_S1", "S1">>,
      <<"RISCV_REG_A0", "A0">>, <<"RISCV_REG_A1", "A1">>,
      <<"RISCV_REG_A2", "A2">>, <<"RISCV_REG_A3", "A3">>,
      <<"RISCV_REG_A4", "A4">>, <<"RISCV_REG_A5", "A5">>,
      <<"RISCV_REG_A6", "A6">>, <<"RISCV_REG_A7", "A7">>,
      <<"RISCV_REG_S2", "S2">>, <<"RISCV_REG_S3", "S3">>,
      <<"RISCV_REG_S4", "S4">>, <<"RISCV_REG_S5", "S5">>,
      <<"RISCV_REG_S6", "S6">>, <<"RISCV_REG_S7", "S7">>,
      <<"RISCV_REG_S8", "S8">>, <<"RISCV_REG_S9", "S9">>,
      <<"RISCV_REG_S10", "S10">>, <<"RISCV_REG_S11", "S11">>,
      <<"RISCV_REG_T3", "T3">>, <<"RISCV_REG_T4", "T4">>,
      <<"RISCV_REG_T5", "T5">>, <<"RISCV_REG_T6", "T6">>>>

Named(arch) == IF arch = "arm" THEN ArmNamed ELSE RiscVNamed
NamedIds(arch) == {Named(arch)[i][1] : i \in 1..Len(Named(arch))}
NameOf(arch, regid) ==
    Named(arch)[CHOOSE i \in 1..Len(Named(arch)) : Named(arch)[i][1] = regid][2]

\* C25: the conversion from a disassembler register id is defined for the
\* constant of every general-purpose register, gives the register of the
\* same name, and gives it for no other constant.
C25_DisassemblerIds ==
    (backend = "regs" /\ conv.fn = "from_regid" /\ conv.regid \in NamedIds(conv.arch)) =>
        /\ conv.out_reg = NameOf(conv.arch, conv.regid)
        /\ is_general_purpose(conv.arch, conv.out_reg)
        /\ \A other \in RegIds(conv.arch) \ {conv.regid} :
               from_regid(conv.arch, other) # conv.out_reg

----------------------------------------------------------------------------
(* Saved task registers *)

\* the size in bytes of the frame the exception entry pushed
FrameSize(target) == IF target = "thumbv6m-none-eabi" THEN 32 ELSE 104

\* bit 9 of the 8th word at psp: bit 1 of the second of its four bytes
RealignBit(stack) == (stack[30] \div 2) % 2 = 1

\* C26: where the saved state has its members and the stack at psp can be
\* read, ARM read_saved_task_regs returns SP = psp + frame size, plus 4
\* when bit 9 of the saved PSR is set; the frame is 32 bytes for thumbv6m
\* and 104 bytes for any other target.
C26_RecoveredSp ==
    (/\ backend = "arch" /\ conv.fn = "read_saved_task_regs"
     /\ conv.in.members /\ conv.in.read = "ok") =>
        /\ conv.out.res = "ok"
        /\ conv.out.regs["SP"] =
               Add(conv.in.psp, FromNat(FrameSize(conv.in.target)
                                        + (IF RealignBit(conv.in.stack) THEN 4 ELSE 0)))

\* the k-th 32-bit word (from 0) of the bytes at psp, least significant
\* byte first
WordAt(stack, k) ==
    W(stack[4 * k + 4] * 256 + stack[4 * k + 3], stack[4 * k + 2] * 256 + stack[4 * k + 1])

\* the registers the exception entry pushed, in the order of their words
HardwarePushed == <<"R0", "R1", "R2", "R3", "R12", "LR", "PC", "PSR">>

\* the registers kept in the saved-state structure, r4 first
CalleeSaved == <<"R4", "R5", "R6", "R7", "R8", "R9", "R10", "R11">>

\* C32: a register map ARM read_saved_task_regs returns holds exactly R4..R11
\* with the values of the members r4..r11 of the saved-state structure,
\* R0, R1, R2, R3, R12, LR, PC, PSR with the eight little-endian words at
\* psp in that order, and SP; whenever the structure has its members,
\* exactly one read, of 32 bytes at psp, is made of the core.
C32_TwoSources ==
    (backend = "arch" /\ conv.fn = "read_saved_task_regs") =>
        /\ conv.in.members =>
               conv.out.reads = <<[addr |-> conv.in.psp, len |-> 32]>>
        /\ conv.out.res = "ok" =>
               /\ DOMAIN conv.out.regs =
                      {HardwarePushed[k] : k \in 1..8} \cup {CalleeSaved[k] : k \in 1..8}
                          \cup {"SP"}
               /\ \A k \in 1..8 :
                      /\ conv.out.regs[CalleeSaved[k]] = conv.in.saved[k + 3]
                      /\ conv.out.regs[HardwarePushed[k]] = WordAt(conv.in.stack, k - 1)

\* a frame in RAM has been recovered
C32_Witness ==
    /\ backend = "arch" /\ conv.fn = "read_saved_task_regs"
    /\ conv.in.psp = W(8192, 8188) /\ conv.in.target = "thumbv6m-none-eabi"
    /\ conv.out.res = "ok"
    /\ conv.out.regs["R12"] = W(0, 517)
    /\ conv.out.reads = <<[addr |-> W(8192, 8188), len |-> 32]>>

----------------------------------------------------------------------------
(* Broken transport and malformed replies *)

\* C27: when the read a response is awaited on yields zero bytes or fails,
\* OpenOCDCore::sendcmd and GDBCore::recvdata return an error: no panic on
\* an index outside the buffer, no further turn of the loop.
C27_BrokenTransportIsError ==
    (backend = "wire" /\ conv.broken) => conv.res = "err"

\* the value of a hex digit given as a byte, -1 for any other byte
HexCode(c) ==
    IF c >= 48 /\ c <= 57 THEN c - 48
    ELSE IF c >= 97 /\ c <= 102 THEN c - 87
    ELSE IF c >= 65 /\ c <= 70 THEN c - 55
    ELSE -1

RECURSIVE SumBytes(_)
SumBytes(bytes) == IF bytes = <<>> THEN 0 ELSE bytes[1] + SumBytes(Tail(bytes))

\* text is acknowledgements, then '$', a payload free of '$' and '#', '#',
\* and the two hex digits of the payload's sum modulo 256
WellFormed(text, payload) ==
    \E s \in 1..Len(text) :
        /\ \A i \in 1..(s - 1) : text[i] = 43
        /\ text[s] = GDB_PACKET_START
        /\ Len(text) = s + Len(payload) + 3
        /\ SubSeq(text, s + 1, s + Len(payload)) = payload
        /\ \A i \in 1..Len(payload) :
               payload[i] # GDB_PACKET_START /\ payload[i] # GDB_PACKET_END
        /\ text[Len(text) - 2] = GDB_PACKET_END
        /\ HexCode(text[Len(text) - 1]) >= 0 /\ HexCode(text[Len(text)]) >= 0
        /\ 16 * HexCode(text[Len(text) - 1]) + HexCode(text[Len(text)])
               = SumBytes(payload) % 256

\* C28: recvdata returns a payload only out of a reply that is well framed
\* and whose two checksum digits are the sum of the payload bytes modulo
\* 256; any other reply is an error for the call.
C28_BadPacketRejected ==
    (backend = "wire" /\ conv.fn = "recvdata" /\ conv.res = "ok") =>
        WellFormed(conv.result, conv.out)

----------------------------------------------------------------------------
(* Bulk register operations *)

\* C29: when the reads of some registers fail, the registers command and
\* RISC-V read_saved_task_regs leave out those registers only: every other
\* register is in the result, the operation completes, and the registers
\* command calls op_done.
C29_SkipAndContinue ==
    backend = "arch" =>
        /\ (conv.fn = "registers" /\ conv.in.op_start_ok) =>
               /\ conv.out.res # "panic"
               /\ conv.out.regs = Listed(conv.in.arch, conv.in.fp)
                                      \ (conv.in.fails \cup conv.in.panics)
               /\ conv.out.calls[Len(conv.out.calls)] = "op_done"
        /\ conv.fn = "rv_read_saved_task_regs" =>
               /\ conv.out.res = "ok"
               /\ conv.out.regs = get_all_registers("riscv") \ conv.in.missing

----------------------------------------------------------------------------
(* Registers pushed before a system call *)

\* the substitution map after the first n instructions: each move
\* `target <- source` (its operands, destination first) recorded as
\* target |-> source
RECURSIVE Moves(_, _)
Moves(instrs, n) ==
    IF n = 0 THEN <<>>
    ELSE IF instrs[n].id = "ARM_INS_MOV"
    THEN RegsInsert(Moves(instrs, n - 1), NameOf("arm", instrs[n].operands[1]),
                    NameOf("arm", instrs[n].operands[2]))
    ELSE Moves(instrs, n - 1)

Substituted(map, reg) == IF reg \in DOMAIN map THEN map[reg] ELSE reg

\* the shadow of the stack after the first n instructions, in push order
RECURSIVE Shadow(_, _)
Shadow(instrs, n) ==
    IF n = 0 THEN <<>>
    ELSE IF instrs[n].id = "ARM_INS_PUSH"
    THEN Shadow(instrs, n - 1) \o
         [i \in 1..Len(instrs[n].operands) |->
             Substituted(Moves(instrs, n - 1),
                         NameOf("arm", instrs[n].operands[Len(instrs[n].operands) + 1 - i]))]
    ELSE IF instrs[n].id = "ARM_INS_POP"
    THEN Popped(Shadow(instrs, n - 1), Len(instrs[n].operands))
    ELSE Shadow(instrs, n - 1)

\* C30: ARM presyscall_pushes records, for each pushed register, the
\* source of the move that last targeted it in the window, and the register
\* itself where no move targeted it; the list is returned in addressing
\* order, the reverse of the push order.
C30_MoveSubstitution ==
    (backend = "arch" /\ conv.fn = "presyscall_pushes") =>
        /\ conv.out.res = "ok"
        /\ conv.out.regs = Reverse(Shadow(conv.in.instrs, Len(conv.in.instrs)))

\* the registers the first n instructions left on the stack, in push order,
\* moves set aside
RECURSIVE Slots(_, _)
Slots(instrs, n) ==
    IF n = 0 THEN <<>>
    ELSE IF instrs[n].id = "ARM_INS_PUSH"
    THEN Slots(instrs, n - 1) \o
         [i \in 1..Len(instrs[n].operands) |->
             NameOf("arm", instrs[n].operands[Len(instrs[n].operands) + 1 - i])]
    ELSE IF instrs[n].id = "ARM_INS_POP"
    THEN SubSeq(Slots(instrs, n - 1), 1,
                IF Len(Slots(instrs, n - 1)) > Len(instrs[n].operands)
                THEN Len(Slots(instrs, n - 1)) - Len(instrs[n].operands) ELSE 0)
    ELSE Slots(instrs, n - 1)

\* the sources of the moves of a window
MoveSources(instrs) ==
    {NameOf("arm", instrs[i].operands[2]) :
        i \in {k \in 1..Len(instrs) : instrs[k].id = "ARM_INS_MOV"}}

----------------------------------------------------------------------------
(* Buffers filled from a reply *)

\* C34: OpenOCD read_8 returns Ok only with every byte of the caller's
\* buffer assigned from a value token of the reply: the reply has an even
\* number of tokens and no byte keeps the content it had before the call.
C34_EveryByteAssigned ==
    (backend = "ocd" /\ last.op = "read_8" /\ last.res = "ok") =>
        /\ Len(last.reply.toks) % 2 = 0
        /\ \A i \in 0..(last.arg.len - 1) : last.data[i] # Stale

\* C37: GDBCore::read_8 returns Ok only with every byte of the caller's
\* buffer written from the reply: the reply carried 2 * len hex digits, and
\* a shorter one (an empty one included) is an error.
C37_FullReplyOnly ==
    (backend = "gdb" /\ last.op = "read_8" /\ last.res = "ok") =>
        Len(last.data) = last.arg.len

----------------------------------------------------------------------------
(* Branch targets *)

\* the last operand of the instruction is an immediate
LastIsImm(instr) ==
    Len(instr.operands) > 0 /\ instr.operands[Len(instr.operands)].type = "Imm"

Relative(instr) == "CS_GRP_BRANCH_RELATIVE" \in instr.groups /\ LastIsImm(instr)

\* an immediate as the 32-bit address it stands for
Address(a) == IF a >= 0 THEN W(a \div 65536, a % 65536)
              ELSE W(65535 - ((-a - 1) \div 65536), 65535 - ((-a - 1) % 65536))

Names(instr, id) == \E i \in 1..Len(instr.operands) : instr.operands[i] = RegOp(id)

\* C33: ARM instr_branch_target gives, in this priority: for a relative
\* branch whose last operand is an immediate, that address, as Call if the
\* instruction is in the call group and as Direct if not; otherwise
\* IndirectCall for an instruction in the call group; otherwise, for one in
\* the jump group, Return if LR is among its operands and Indirect if not;
\* otherwise Return for a pop whose operands include PC; otherwise nothing.
C33_BranchPriority ==
    (backend = "arch" /\ conv.fn = "instr_branch_target") =>
        conv.out =
            IF Relative(conv.in)
            THEN [kind |-> IF "CS_GRP_CALL" \in conv.in.groups THEN "Call" ELSE "Direct",
                  addr |-> Address(conv.in.operands[Len(conv.in.operands)].imm)]
            ELSE [kind |->
                     CASE "CS_GRP_CALL" \in conv.in.groups -> "IndirectCall"
                       [] /\ "CS_GRP_CALL" \notin conv.in.groups
                          /\ "CS_GRP_JUMP" \in conv.in.groups
                          /\ Names(conv.in, "ARM_REG_LR") -> "Return"
                       [] /\ "CS_GRP_CALL" \notin conv.in.groups
                          /\ "CS_GRP_JUMP" \in conv.in.groups
                          /\ ~Names(conv.in, "ARM_REG_LR") -> "Indirect"
                       [] /\ conv.in.groups \cap {"CS_GRP_CALL", "CS_GRP_JUMP"} = {}
                          /\ conv.in.id = "ARM_INS_POP"
                          /\ Names(conv.in, "ARM_REG_PC") -> "Return"
                       [] OTHER -> "None",
                  addr |-> Zero32]

\* a relative branch in the call and jump groups, LR among its operands,
\* has been classified as a call to its target
C33_Witness ==
    /\ backend = "arch" /\ conv.fn = "instr_branch_target"
    /\ conv.in.groups = {"CS_GRP_BRANCH_RELATIVE", "CS_GRP_JUMP", "CS_GRP_CALL"}
    /\ conv.in.operands = <<RegOp("ARM_REG_LR"), ImmOp(256)>>
    /\ conv.out = Target("Call", W(0, 256))

----------------------------------------------------------------------------
(* The nesting counter and the reads of ProbeCore *)

\* C35: ProbeCore's nesting counter never underflows: run or op_done
\* called with the counter at 0 (run as the first call of a session
\* included) neither aborts nor wraps the counter, which is 0 afterwards,
\* so that the next halt reaches the target.
C35_CounterNeverUnderflows ==
    (backend = "probe" /\ last.op \in {"run", "op_done"} /\ last.pre = Zero32) =>
        /\ last.res # "panic"
        /\ probe.halted = Zero32
        /\ HaltIsPhysical(probe.halted)

\* what a read gives on a session whose driver halts and resumes the target
\* when asked (the read itself may fail)
DriverWorked(op, arg, fault) ==
    LET r == IF op = "read_word_32"
             THEN ProbeReadWord32(probe, target_halted, arg.addr, fault, overflow_checks)
             ELSE ProbeRead8(probe, target_halted, arg.addr, arg.len, fault,
                             overflow_checks)
    IN  last'.res = r.res /\ last'.phys = r.phys /\ target_halted' = r.target

\* a read whose bytes are not all inside an always-readable window is made
OutsideRead ==
    /\ backend = "probe" /\ last = Idle
    /\ last'.op \in ReadOps /\ last'.arg.len <= CORE_MAX_READSIZE
    /\ ~InsideWindow(last'.arg.addr, last'.arg.len)
    /\ \E fault \in {"none", "read"} : DriverWorked(last'.op, last'.arg, fault)

\* C36: on ProbeCore with unhalted_reads = false a read outside the
\* always-readable windows leaves the nesting counter and the target's run
\* state as they were: with the counter at 0 on a running target it sends
\* halt, the read and run, also when the read fails; with the counter above
\* 0 or the target halted it sends neither halt nor run.  With
\* unhalted_reads = true no read, op_start or op_done sends halt or run.
C36_ReadPreservesRunState ==
    [][/\ OutsideRead =>
            /\ probe'.halted = probe.halted
            /\ target_halted' = target_halted
            /\ IF ~probe.unhalted_reads /\ probe.halted = Zero32 /\ ~target_halted
               THEN last'.phys = <<"halt", "read", "run">>
               ELSE Halts(last'.phys) = 0 /\ Runs(last'.phys) = 0
       /\ (/\ backend = "probe" /\ last = Idle /\ probe.unhalted_reads
           /\ last'.op \in ReadOps \cup {"op_start", "op_done"}) =>
            Halts(last'.phys) = 0 /\ Runs(last'.phys) = 0]_vars

\* C38: the always-readable-window test of ProbeCore read_word_32 and
\* read_8 is evaluated without 32-bit overflow for every address and every
\* length up to 65536: the read does not abort on the addition, and it is
\* taken to lie inside a window only if all its bytes do.
C38_WindowTestNoOverflow ==
    (/\ backend = "probe" /\ last.op \in ReadOps
     /\ last.arg.len <= CORE_MAX_READSIZE) =>
        /\ last.res # "panic"
        /\ UnhaltedWindow(last.arg.addr, FromNat(last.arg.len), overflow_checks) = "in"
               => InsideWindow(last.arg.addr, last.arg.len)

----------------------------------------------------------------------------
(* Registers of system call arguments *)

\* the registers that carry the arguments of a system call
ArgumentRegisters(arch) ==
    IF arch = "riscv" THEN {"A0", "A1", "A2", "A3", "A4", "A5", "A6", "A7"}
    ELSE {"R4", "R5", "R6", "R7", "R8", "R9", "R10", "R11", "R12"}

FirstArgument(arch) == IF arch = "riscv" THEN "A0" ELSE "R4"

\* C39: a register get_syscall_register(n) returns has the native id of the
\* first argument register plus n (ARM: R4 + n, RISC-V: A0 + n) and is an
\* argument register of the architecture (RISC-V: one of A0..A7); for any
\* other n the call is an error.
C39_SyscallRegister ==
    (backend = "regs" /\ conv.fn = "get_syscall_register" /\ conv.out_reg # "Err") =>
        /\ to_u32(conv.arch, conv.out_reg)
               = to_u32(conv.arch, FirstArgument(conv.arch)) + conv.id
        /\ conv.out_reg \in ArgumentRegisters(conv.arch)

====
